---- MODULE Spec2Model ----
(***************************************************************************)
(* State-machine model of the schwarm agent runtime.                       *)
(*                                                                         *)
(*   Spec      Schwarm.run (src/src/schwarm/core/schwarm.py): the turn     *)
(*             loop, its lifecycle events, tool batch and handoff.         *)
(*   SpecOrch  Orchestrator (src/src/refactor/core/orchestrator.py):       *)
(*             run_conversation and _execute_tool.                         *)
(*   SpecEvents  the two EventDispatcher classes (src/schwarm/events.py    *)
(*             and src/src/schwarma-core/schwarma_core/events.py).         *)
(*   SpecGate  Schwarm.run with the pause gate of _trigger_event and the   *)
(*             frontend setting the break flag and sending user input.     *)
(*   SpecControl  the inbound handlers of the control plane                *)
(*             (http_telemetry_exporter.py, server.py).                    *)
(*   SpecWs    WebsocketManager2 (src/src/schwarm/manager/server.py):      *)
(*             send_message, the queue flush and handle_client.            *)
(*   SpecStream  StreamManager and StreamToolManager                       *)
(*             (src/src/schwarm/manager/stream_manager.py): the two        *)
(*             singletons, connect, disconnect and write.                  *)
(*   SpecFilter  Schwarm._filter_context_vars_from_tools on the tool       *)
(*             schemas of one model call.                                  *)
(*   SpecContext  Context (src/src/schwarm/context/context.py) and a       *)
(*             caller holding a dictionary it got from get_all.            *)
(*   SpecProviders  Schwarm.create_provider_configs and the provider       *)
(*             manager's create_provider with its three scopes.            *)
(*   SpecRegistry  ToolRegistry (src/src/schwarm/tools/registry.py):       *)
(*             execute with its result cache and the retry loop.           *)
(*   SpecBus   ContextManager (src/src/schwarm/context.py) shared by       *)
(*             coroutines, on the enhanced EventDispatcher                 *)
(*             (src/src/schwarm/events.py) with its asyncio.Lock.          *)
(*   SpecAgent  Agent.execute_function                                     *)
(*             (src/src/schwarma-agents/schwarma_agents/agent.py) on the   *)
(*             schwarma_core EventDispatcher.                              *)
(***************************************************************************)
EXTENDS Integers, Sequences, FiniteSets, TLC

(* ------------------------------ bounds --------------------------------- *)
\* largest max_turns argument tried
MaxTurnsBound == 3
\* most tool calls the model emits over one run
MaxCalls == 3
\* longest tool-call batch handed to Orchestrator._execute_tool directly
MaxBatch == 2
\* largest max_turns argument tried for Orchestrator.run_conversation
OrchMaxTurns == 2
\* most tool calls the model emits over one run_conversation
OrchMaxCalls == 2
\* most listeners registered with one EventDispatcher
MaxListeners == 3
\* most calls of WebsocketManager2.send_message
MaxMessages == 3
\* most control messages the frontend delivers
MaxInbound == 3
\* largest turn amount of a SetStep message
MaxStep == 2
\* largest max_turns argument tried for a run with a frontend
GateTurns == 2
\* most tool calls the model emits over a run with a frontend
GateCalls == 1
\* most calls of StreamManager.write
MaxWrites == 2
\* most functions of the agent whose tool schemas are filtered
MaxTools == 2
\* most calls of Schwarm.create_provider_configs
MaxMaterialise == 3
\* most configurations of one agent
MaxConfigs == 2
\* largest retry_count of a tool configuration
MaxRetry == 2
\* most calls of ToolRegistry.execute
MaxExecutes == 3
\* how far the clock runs, in seconds
MaxTime == 3

VARIABLES
    pc,          \* position of Schwarm.run
    arg,         \* the arguments of the Schwarm.run call and the number of tool calls the model is good for (never change)
    loc,         \* the locals of Schwarm.run: agent, messages, context_variables, max_turns
    ctx,         \* self._provider_context (ProviderContextModel)
    created,     \* agents for which create_provider_configs has run (their provider instances exist)
    trace,       \* what the run did so far: events handed to the provider manager, model calls, tool batches
    batch,       \* partial_response of the current turn's tool batch
    calls,       \* number of tool calls the model has emitted in this run
    response,    \* Response returned by Schwarm.run
    functions,   \* Agent.functions of every agent (a list object the run may alias and extend)
    opc,         \* position of Orchestrator.run_conversation / _execute_tool
    oarg,        \* arguments of the Orchestrator call
    conversation,\* run_conversation's conversation list
    current_turn,\* run_conversation's current_turn
    oresult,     \* what the Orchestrator call produced
    instruction_calls, \* how often run_conversation has asked the agent for its system message
    dispatcher,  \* which EventDispatcher class the object is
    listeners,   \* EventDispatcher._listeners: event type -> list of listeners
    dpc,         \* position of EventDispatcher.dispatch
    event,       \* the event being dispatched
    cursor,      \* position of dispatch's for loop in the listener list
    invoked,     \* the listeners the current dispatch has called, in call order
    clients,     \* server.py's global set of connected websockets
    queue,       \* WebsocketManager2._message_queue
    nsent,       \* number of send_message calls so far; the n-th call sends message n
    received,    \* what each websocket's peer has received, in order
    conn,        \* state of each websocket's connection
    hpc,         \* position of handle_client for each websocket
    gate,        \* the ProviderManager fields of the pause gate
    wait,        \* is Schwarm.run inside wait_for_frontend, and at which call
    break_on,    \* exporter.config.break_on_events of the configured exporters
    inbox,       \* the control messages the frontend has delivered, in order
    outbox,      \* the break statuses broadcast to the frontend, in order
    instance,    \* the class attribute _instance of StreamManager and of StreamToolManager
    active_connections, \* active_connections of each stream manager object
    sock,        \* each websocket's state and the manager class its endpoint uses
    writer,      \* the StreamManager.write call in flight: its arguments, locals and position
    delivered,   \* the messages send_json has put on a websocket
    stream_raised, \* the exceptions that have left a stream manager method
    tools,       \* the list `tools` of _complete_agent_request (dicts changed in place)
    given,       \* the tool schemas as function_to_json built them
    fcur,        \* the tool the loop of _filter_context_vars_from_tools is at; 0 outside a call
    variables,   \* Context._variables
    returned,    \* the dictionary a caller got from get_all and what the caller made of it
    last_set,    \* per key the value of the last set not followed by remove or clear
    providers,   \* ProviderManager._providers: scope key -> the instances stored under it
    agent_configs, \* Agent.configs of every agent
    provider_names, \* Agent.provider_names of every agent
    issued,      \* the create_provider calls so far: agent name, configuration, instance returned
    made,        \* number of provider instances constructed so far
    reg,         \* the ToolRegistry.execute call in flight: arguments, locals, position
    cache,       \* ToolRegistry._cache: cache key -> result and time
    now,         \* datetime.utcnow(), in seconds
    rlog,        \* how many execute calls are over, the last of them, and per key the last result the tool gave
    \* ---- ContextManager on the enhanced EventDispatcher ----
    cm,          \* ContextManager: _variables, _pending_key, _pending_value
    lock,        \* EventDispatcher._lock: the frame that holds it and the frames waiting for it
    handlers,    \* EventDispatcher._listeners[CONTEXT_VARIABLE_SET], in order of registration
    co,          \* per coroutine: where it is in set / execute_set and what it asked for
    \* ---- Agent.execute_function ----
    fx,          \* the execute_function call: position, function, what the function did, outcome
    fevents,     \* the types of the events the agent has dispatched, in order
    flisteners   \* the dispatcher's listeners (their behaviours) per event type

vars == <<pc, arg, loc, ctx, created, trace, batch, calls, response, functions,
          opc, oarg, conversation, current_turn, oresult, instruction_calls,
          dispatcher, listeners, dpc, event, cursor, invoked,
          clients, queue, nsent, received, conn, hpc,
          gate, wait, break_on, inbox, outbox,
          instance, active_connections, sock, writer, delivered, stream_raised,
          tools, given, fcur,
          variables, returned, last_set,
          providers, agent_configs, provider_names, issued, made,
          reg, cache, now, rlog, cm, lock, handlers, co, fx, fevents, flisteners>>
svars == <<pc, arg, loc, ctx, created, trace, batch, calls, response, functions>>
ovars == <<opc, oarg, conversation, current_turn, oresult, instruction_calls>>
evars == <<dispatcher, listeners, dpc, event, cursor, invoked>>
\* the objects Schwarm.run and the Orchestrator never touch
gvars == <<gate, wait, break_on, inbox, outbox>>
wvars == <<clients, queue, nsent, received, conn, hpc>>
tvars == <<instance, active_connections, sock, writer, delivered, stream_raised>>
\* the objects of the manager package and the libraries
fvars == <<tools, given, fcur>>
cvars == <<variables, returned, last_set>>
pvars == <<providers, agent_configs, provider_names, issued, made>>
rvars == <<reg, cache, now, rlog>>
bvars == <<cm, lock, handlers, co>>
avars == <<fx, fevents, flisteners>>
yvars == <<tvars, fvars, cvars, pvars, rvars, bvars, avars>>
xvars == <<evars, wvars, yvars>>

None == "none"

(* ------------------------- agents and tools ---------------------------- *)
Agents == {"router", "worker"}

\* names the model may put into a tool call
ToolNames == {"plain", "to_router", "to_worker"}

\* Agent.functions as the agents are declared: each can hand off to the other
DeclaredFunctions(a) == IF a = "router" THEN <<"plain", "to_worker">>
                                        ELSE <<"plain", "to_router">>

Range(s) == {s[i] : i \in 1..Len(s)}

\* context variables: a dict over these keys, None for a key that is not set
Keys == {"user", "last"}
NoVars == [k \in Keys |-> None]

Update_KeepsExisting(d, patch) == [k \in Keys |-> IF d[k] # None THEN d[k] ELSE patch[k]]

\* dict.update: the keys of patch override, the others stay
Update(d, patch) == [k \in Keys |-> IF patch[k] # None THEN patch[k] ELSE d[k]]

\* what a tool returns: a plain value, or Result(value, context_variables, agent)
ToolReturn(name) ==
    CASE name = "plain"     -> [value |-> "ok", context_variables |-> NoVars, agent |-> None]
      [] name = "to_router" -> [value |-> "ok", context_variables |-> [NoVars EXCEPT !["last"] = "router"],
                                agent |-> "router"]
      [] name = "to_worker" -> [value |-> "ok", context_variables |-> [NoVars EXCEPT !["last"] = "worker"],
                                agent |-> "worker"]

UserMsg == [role |-> "user", content |-> "input", tool_calls |-> <<>>, tool_call_id |-> <<>>]

AssistantMsg(tcs) == [role |-> "assistant", content |-> "reply", tool_calls |-> tcs, tool_call_id |-> <<>>]

ToolMsg(content, id) == [role |-> "tool", content |-> content, tool_calls |-> <<>>, tool_call_id |-> <<id>>]

\* the tool-call batches the model can emit: ids are fresh, names are any of ToolNames
ToolCallBatches(n, first) ==
    { [i \in 1..n |-> [id |-> first + i, name |-> f[i]]] : f \in [1..n -> ToolNames] }

(* ------------------ ToolHandler.handle_tool_calls ---------------------- *)
\* One call: an unknown name gives an error tool message; otherwise the tool's
\* value becomes the tool message, its context variables and agent are recorded.
HandleOne(call, fns) ==
    IF call.name \notin Range(fns)
    THEN [message |-> ToolMsg("error", call.id), context_variables |-> NoVars, agent |-> None]
    ELSE LET r == ToolReturn(call.name)
         IN  [message |-> ToolMsg(r.value, call.id), context_variables |-> r.context_variables,
              agent |-> r.agent]

\* The batch in declared order: one message per call, patches merged left to
\* right, the last non-null agent is the handoff target.
RECURSIVE HandleToolCalls(_, _)
HandleToolCalls(tool_calls, fns) ==
    IF tool_calls = <<>>
    THEN [messages |-> <<>>, context_variables |-> NoVars, agent |-> None]
    ELSE LET n    == Len(tool_calls)
             rest == HandleToolCalls(SubSeq(tool_calls, 1, n - 1), fns)
             one  == HandleOne(tool_calls[n], fns)
         IN  [messages |-> Append(rest.messages, one.message),
              context_variables |-> Update(rest.context_variables, one.context_variables),
              agent |-> IF one.agent # None THEN one.agent ELSE rest.agent]

NoBatch == [messages |-> <<>>, context_variables |-> NoVars, agent |-> None]

(* ---------------------------- pause gate ------------------------------- *)
\* the kinds of event Schwarm.run triggers
RunEvents ==
    {"START", "START_TURN", "INSTRUCT", "MESSAGE_COMPLETION", "POST_MESSAGE_COMPLETION",
     "TOOL_EXECUTION", "POST_TOOL_EXECUTION", "HANDOFF"}

\* the gate fields of a ProviderManager nobody has touched
GateOff ==
    [global_break |-> FALSE, breakpoint_counter |-> 0, breakpoint |-> {},
     last_user_input |-> "", wait_for_user_input |-> FALSE]

\* no frontend: the gate is off and no exporter breaks on any event
NoFrontend ==
    /\ gate = GateOff
    /\ wait = "none"
    /\ break_on = {}
    /\ inbox = <<>>
    /\ outbox = <<>>

BreakPoint_Never(event_type) == FALSE

\* lines 259-266: is the event in break_on_events of a configured exporter?
BreakPoint(event_type) == event_type \in break_on

\* ProviderManager.wait_for_frontend is entered: the gate engages and the
\* caller blocks, the frontend is told that the run waits for it
WaitForFrontend(g) == [g EXCEPT !.global_break = TRUE, !.wait_for_user_input = TRUE]

\* the gate fields when wait_for_frontend returns
Returned(g) == [g EXCEPT !.last_user_input = "", !.wait_for_user_input = FALSE]

\* the context when wait_for_frontend returns: text the frontend handed in
\* while the run waited is appended to the history as a user message
AfterWait(c, g) ==
    IF g.last_user_input = "" THEN c
    ELSE [c EXCEPT !.message_history =
             Append(@, [role |-> "user", content |-> g.last_user_input,
                        tool_calls |-> <<>>, tool_call_id |-> <<>>])]

\* the context an event is dispatched with: line 256 may have waited before
PreWaitContext(c) == IF wait = "pre" THEN AfterWait(c, gate) ELSE c

\* _trigger_event around the dispatch: the break flag was clear at line 255
\* or the wait of line 256 is over; after the dispatch lines 281-282 wait for
\* the frontend when the event is a break point
TriggerGate(event_type) ==
    /\ wait \in {"none", "pre"}
    /\ ~gate.global_break
    /\ LET g == IF wait = "pre" THEN Returned(gate) ELSE gate
       IN  IF BreakPoint(event_type)
              THEN gate' = WaitForFrontend(g) /\ wait' = "post"
              ELSE gate' = g /\ wait' = "none"
    /\ UNCHANGED <<break_on, inbox, outbox>>

\* a step of the run that triggers no event: the run is not waiting
NoTrigger ==
    /\ wait = "none"
    /\ UNCHANGED gvars

(* --------------------------- Schwarm.run ------------------------------- *)
\* no message yet (current_message of a fresh context)
NoMessage == [role |-> "none", content |-> "", tool_calls |-> <<>>, tool_call_id |-> <<>>]

\* no Response yet
NoResponse == [messages |-> <<>>, agent |-> None, context_variables |-> NoVars]

\* ProviderContextModel(): a fresh context, turn 0, nothing set
FreshContext ==
    [current_turn |-> 0, max_turns |-> None, current_agent |-> None, previous_agent |-> None,
     message_history |-> <<>>, context_variables |-> NoVars, current_message |-> NoMessage,
     available_agents |-> <<>>, tools_of |-> None]

\* context.available_tools: the list object of the agent it was taken from
AvailableTools(c, fns) == IF c.tools_of = None THEN <<>> ELSE fns[c.tools_of]

NumToolCalls(m) == Len(m.tool_calls)

\* one entry of the trace, as the provider manager (or the model, or the tool
\* handler) sees the run at that moment
Entry(type, c, agent, cr, pr) ==
    [type |-> type, turn |-> c.current_turn, agent |-> agent, prev |-> c.previous_agent,
     hist |-> Len(c.message_history), ntc |-> NumToolCalls(c.current_message),
     vars |-> c.context_variables, created |-> cr,
     next |-> pr.agent, patch |-> pr.context_variables]

\* _trigger_event: the event, built from the context, goes to the provider manager
TriggerEvent(type, c, cr) == Append(trace, Entry(type, c, c.current_agent, cr, NoBatch))

\* agent.functions not yet in available_tools, in order (the loop of _setup_context)
RECURSIVE AppendMissing(_, _)
AppendMissing(list, fs) ==
    IF fs = <<>> THEN list
    ELSE AppendMissing(IF Head(fs) \in Range(list) THEN list ELSE Append(list, Head(fs)), Tail(fs))

\* Does _setup_context materialise the agent's providers?
SetupCreates(c, agent) == c.current_turn = 0 \/ agent \notin Range(c.available_agents)

\* _setup_context, up to its START event
SetupContext ==
    /\ pc = "setup"
    /\ LET first == ctx.current_turn = 0
           c0 == IF first
                 THEN [FreshContext EXCEPT !.available_agents = <<loc.agent>>, !.tools_of = loc.agent]
                 ELSE [ctx EXCEPT !.available_agents =
                           IF loc.agent \in Range(@) THEN @ ELSE Append(@, loc.agent)]
           c1 == PreWaitContext([c0 EXCEPT !.max_turns = loc.max_turns,
                                           !.current_agent = loc.agent,
                                           !.context_variables = loc.context_variables,
                                           !.message_history = loc.messages])
           cr == IF SetupCreates(ctx, loc.agent) THEN created \cup {loc.agent} ELSE created
       IN  /\ ctx' = c1
           /\ created' = cr
           /\ functions' = IF first THEN functions
                           ELSE [functions EXCEPT ![ctx.tools_of] = AppendMissing(@, functions[loc.agent])]
           /\ trace' = TriggerEvent("START", c1, cr)
    /\ pc' = "start_turn"
    /\ TriggerGate("START")
    /\ UNCHANGED <<arg, loc, batch, calls, response, ovars, xvars>>

StartTurn ==
    /\ pc = "start_turn"
    /\ ctx' = PreWaitContext(ctx)
    /\ trace' = TriggerEvent("START_TURN", ctx', created)
    /\ pc' = "instruct"
    /\ TriggerGate("START_TURN")
    /\ UNCHANGED <<arg, loc, created, batch, calls, response, functions, ovars, xvars>>

\* _complete_agent_request: _set_instructions, then INSTRUCT
Instruct ==
    /\ pc = "instruct"
    /\ ctx' = PreWaitContext(ctx)
    /\ trace' = TriggerEvent("INSTRUCT", ctx', created)
    /\ pc' = "message_completion"
    /\ TriggerGate("INSTRUCT")
    /\ UNCHANGED <<arg, loc, created, batch, calls, response, functions, ovars, xvars>>

MessageCompletion ==
    /\ pc = "message_completion"
    /\ ctx' = PreWaitContext(ctx)
    /\ trace' = TriggerEvent("MESSAGE_COMPLETION", ctx', created)
    /\ pc' = "complete"
    /\ TriggerGate("MESSAGE_COMPLETION")
    /\ UNCHANGED <<arg, loc, created, batch, calls, response, functions, ovars, xvars>>

\* lines 224-225: the system message the instruction string is wrapped in
SystemMsg == [role |-> "system", content |-> "instructions", tool_calls |-> <<>>, tool_call_id |-> <<>>]

ModelInput_SystemLast(c) == Append(c.message_history, SystemMsg)

\* line 225: the messages handed to provider.complete
ModelInput(c) == <<SystemMsg>> \o c.message_history

\* provider.complete returns the assistant message; _process_turn appends it
Complete ==
    /\ pc = "complete"
    /\ \E n \in 0..(arg.model_calls - calls) :
       \E tcs \in ToolCallBatches(n, calls) :
          /\ ctx' = [ctx EXCEPT !.current_message = AssistantMsg(tcs),
                                !.message_history = Append(@, AssistantMsg(tcs))]
          /\ calls' = calls + n
    /\ trace' = Append(trace, Entry("model.complete", ctx, loc.agent, created, NoBatch))
    /\ pc' = "post_message_completion"
    /\ NoTrigger
    /\ UNCHANGED <<arg, loc, created, batch, response, functions, ovars, xvars>>

\* what leaves _complete_agent_request instead of a message: the exception of
\* provider.complete (lines 232-238 have no handler), or UnboundLocalError at
\* line 240 when get_first_llm_provider gave no BaseLLMProvider
CompletionFailures == {"raised_model", "raised_unbound"}

\* the model adapter fails: the exception propagates out of _process_turn and run
CompleteRaises ==
    /\ pc = "complete"
    /\ \E failure \in CompletionFailures : pc' = failure
    /\ trace' = Append(trace, Entry("model.complete", ctx, loc.agent, created, NoBatch))
    /\ NoTrigger
    /\ UNCHANGED <<arg, loc, ctx, created, batch, calls, response, functions, ovars, xvars>>

NoToolExecution_IgnoresFlag(completion, execute_tools) == completion.tool_calls = <<>>

\* line 189: does the turn end after POST_MESSAGE_COMPLETION?
NoToolExecution(completion, execute_tools) == completion.tool_calls = <<>> \/ ~execute_tools

PostMessageCompletion ==
    /\ pc = "post_message_completion"
    /\ ctx' = PreWaitContext(ctx)
    /\ trace' = TriggerEvent("POST_MESSAGE_COMPLETION", ctx', created)
    /\ pc' = IF NoToolExecution(ctx.current_message, arg.execute_tools) THEN "end_turn" ELSE "tool_execution"
    /\ TriggerGate("POST_MESSAGE_COMPLETION")
    /\ UNCHANGED <<arg, loc, created, batch, calls, response, functions, ovars, xvars>>

ToolExecution ==
    /\ pc = "tool_execution"
    /\ ctx' = PreWaitContext(ctx)
    /\ trace' = TriggerEvent("TOOL_EXECUTION", ctx', created)
    /\ pc' = "handle_tool_calls"
    /\ TriggerGate("TOOL_EXECUTION")
    /\ UNCHANGED <<arg, loc, created, batch, calls, response, functions, ovars, xvars>>

\* lines 195-203: the batch runs on the local context_variables of run, its
\* messages and its patch go into the context
HandleTools ==
    /\ pc = "handle_tool_calls"
    /\ LET pr == HandleToolCalls(ctx.current_message.tool_calls, functions[loc.agent])
       IN  /\ batch' = pr
           /\ ctx' = [ctx EXCEPT !.message_history = @ \o pr.messages,
                                 !.context_variables = Update(@, pr.context_variables)]
           /\ trace' = Append(trace, Entry("tool.batch",
                                            [ctx EXCEPT !.context_variables = loc.context_variables],
                                            loc.agent, created, pr))
    /\ pc' = "post_tool_execution"
    /\ NoTrigger
    /\ UNCHANGED <<arg, loc, created, calls, response, functions, ovars, xvars>>

PostToolExecution ==
    /\ pc = "post_tool_execution"
    /\ ctx' = PreWaitContext(ctx)
    /\ trace' = TriggerEvent("POST_TOOL_EXECUTION", ctx', created)
    /\ pc' = "handoff"
    /\ TriggerGate("POST_TOOL_EXECUTION")
    /\ UNCHANGED <<arg, loc, created, batch, calls, response, functions, ovars, xvars>>

IsHandoff_AnyAgent(next, agent) == next # None

\* line 205
IsHandoff(next, agent) == next # None /\ next # agent

\* the context after lines 207-208
HandoffContext(c, next, agent) == [c EXCEPT !.current_agent = next, !.previous_agent = agent]

\* lines 205-209
Handoff ==
    /\ pc = "handoff"
    /\ IF IsHandoff(batch.agent, loc.agent)
       THEN /\ ctx' = PreWaitContext(HandoffContext(ctx, batch.agent, loc.agent))
            /\ trace' = TriggerEvent("HANDOFF", ctx', created)
            /\ TriggerGate("HANDOFF")
       ELSE /\ UNCHANGED <<ctx, trace>>
            /\ NoTrigger
    /\ pc' = "end_turn"
    /\ UNCHANGED <<arg, loc, created, batch, calls, response, functions, ovars, xvars>>

\* _can_continue_conversation
CanContinue(c) == c.current_turn < c.max_turns

NextLocals_StaleMessages(c) ==
    [agent |-> c.current_agent, messages |-> loc.messages,
     context_variables |-> c.context_variables, max_turns |-> c.max_turns]

NextLocals_StaleAgent(c) ==
    [agent |-> loc.agent, messages |-> c.message_history,
     context_variables |-> c.context_variables, max_turns |-> c.max_turns]

\* lines 114-117: the locals of the next iteration
NextLocals(c) ==
    [agent |-> c.current_agent, messages |-> c.message_history,
     context_variables |-> c.context_variables, max_turns |-> c.max_turns]

\* lines 110-117
EndTurn ==
    /\ pc = "end_turn"
    /\ ctx' = [ctx EXCEPT !.current_turn = @ + 1]
    /\ IF CanContinue(ctx')
       THEN /\ loc' = NextLocals(ctx')
            /\ pc' = "setup"
       ELSE /\ loc' = loc
            /\ pc' = "return"
    /\ batch' = NoBatch
    /\ NoTrigger
    /\ UNCHANGED <<arg, created, trace, calls, response, functions, ovars, xvars>>

\* lines 122-126
ResponseOf(c, messages) ==
    [messages |-> SubSeq(c.message_history, Len(messages) + 1, Len(c.message_history)),
     agent |-> c.current_agent,
     context_variables |-> c.context_variables]

Return ==
    /\ pc = "return"
    /\ response' = ResponseOf(ctx, loc.messages)
    /\ pc' = "done"
    /\ NoTrigger
    /\ UNCHANGED <<arg, loc, ctx, created, trace, batch, calls, functions, ovars, xvars>>

\* lines 255-256: the break flag is set when an event is about to be
\* dispatched, the run enters wait_for_frontend
PreWait ==
    /\ wait = "none"
    /\ gate.global_break
    /\ \/ pc \in {"setup", "start_turn", "instruct", "message_completion",
                  "post_message_completion", "tool_execution", "post_tool_execution"}
       \/ pc = "handoff" /\ IsHandoff(batch.agent, loc.agent)
    /\ gate' = WaitForFrontend(gate)
    /\ wait' = "pre"
    /\ UNCHANGED <<break_on, inbox, outbox, svars, ovars, xvars>>

\* lines 281-282: the frontend has cleared the break flag, the wait after a
\* break point event returns
Unblock ==
    /\ wait = "post"
    /\ ~gate.global_break
    /\ ctx' = AfterWait(ctx, gate)
    /\ gate' = Returned(gate)
    /\ wait' = "none"
    /\ UNCHANGED <<break_on, inbox, outbox, pc, arg, loc, created, trace, batch, calls,
                   response, functions, ovars, xvars>>

RunArgs ==
    [agent : Agents, messages : {<<>>, <<UserMsg>>},
     context_variables : {[NoVars EXCEPT !["user"] = "u"]},
     max_turns : 0..MaxTurnsBound, execute_tools : BOOLEAN, model_calls : {MaxCalls}]

\* the Orchestrator is not running
OrchIdle ==
    /\ opc = "idle"
    /\ oarg = [entry |-> "none", messages |-> <<>>, max_turns |-> 0, tool_calls |-> <<>>]
    /\ conversation = <<>>
    /\ current_turn = 0
    /\ oresult = [messages |-> <<>>, raised |-> FALSE]
    /\ instruction_calls = 0

\* the kinds of event the dispatchers are tried with
EventTypes == {"AGENT_INITIALIZED", "AGENT_DESTROYED"}

\* no dispatcher has been constructed
EventsIdle ==
    /\ dispatcher = "none"
    /\ listeners = [t \in EventTypes |-> <<>>]
    /\ dpc = "idle"
    /\ event = "none"
    /\ cursor = 0
    /\ invoked = <<>>

\* the websockets that connect to the server
Sockets == {"ws1", "ws2"}

\* the module is imported: no client, empty queue
WsIdle ==
    /\ clients = {}
    /\ queue = <<>>
    /\ nsent = 0
    /\ received = [w \in Sockets |-> <<>>]
    /\ conn = [w \in Sockets |-> "new"]
    /\ hpc = [w \in Sockets |-> "idle"]

StreamClasses == {"StreamManager", "StreamToolManager"}
Chunks == {"", "x"}
NoWrite == [pc |-> "idle", via |-> "none", self |-> "none", type |-> "none", chunk |-> "",
            size |-> 0, pending |-> {}, disconnected |-> {}, at_call |-> {}, count |-> 0]

\* stream_manager.py is imported: StreamManager._instance is None (line 26),
\* StreamToolManager has no attribute of its own, nobody has connected
StreamIdle ==
    /\ instance = [c \in StreamClasses |-> IF c = "StreamManager" THEN "none" ELSE "unset"]
    /\ active_connections = [c \in StreamClasses |-> {}]
    /\ sock = [w \in Sockets |-> [state |-> "new", cls |-> "none"]]
    /\ writer = NoWrite
    /\ delivered = {}
    /\ stream_raised = {}

\* no model call is being prepared
FilterIdle ==
    /\ tools = <<>>
    /\ given = <<>>
    /\ fcur = 0

\* the keys and values a Context is tried with; a key with no entry maps to Absent
ContextKeys == {"k1", "k2"}
ContextValues == {"v1", "v2"}
Absent == "absent"
NoDict == [held |-> FALSE, alias |-> FALSE, dict |-> [k \in ContextKeys \cup {"new_key"} |-> Absent]]

\* Context.__init__: an empty dictionary; get_all has not been called
ContextIdle ==
    /\ variables = [k \in ContextKeys \cup {"new_key"} |-> Absent]
    /\ returned = NoDict
    /\ last_set = [k \in ContextKeys |-> Absent]

ScopeKeys == {"global", "router", "worker"}

\* a new provider manager; the agents have no configurations
ProvidersIdle ==
    /\ providers = [k \in ScopeKeys |-> {}]
    /\ agent_configs = [a \in Agents |-> <<>>]
    /\ provider_names = [a \in Agents |-> <<>>]
    /\ issued = <<>>
    /\ made = 0

\* the argument dictionaries execute is called with, as lists of items in
\* the order the caller gave them: one argument set in both orders, and another
ArgLists == { << <<"a", 1>>, <<"b", 2>> >>, << <<"b", 2>>, <<"a", 1>> >>, << <<"a", 2>>, <<"b", 2>> >> }

\* sorted(args.items())
Sorted(items) ==
    CHOOSE q \in [1..Len(items) -> {items[i] : i \in 1..Len(items)}] :
        /\ {q[i] : i \in 1..Len(q)} = {items[i] : i \in 1..Len(items)}
        /\ \A i, j \in 1..Len(q) : i < j =>
              \/ q[i][1] = "a" /\ q[j][1] = "b"
              \/ q[i][1] = q[j][1] /\ q[i][2] <= q[j][2]

\* lines 183-195
MakeCacheKey(name, args) == <<name, Sorted(args)>>

CacheKeys == {MakeCacheKey("tool", a) : a \in ArgLists}

NoEntry == [present |-> FALSE, result |-> "none", time |-> 0]
\* no execute call in flight; ttl and retry_count are the tool's ToolConfig
NoCall == [pc |-> "idle", key |-> <<>>, ttl |-> 0, retry_count |-> 0, start |-> 0,
           retries |-> 0, tries |-> <<>>, last_error |-> 0, before |-> NoEntry]
NoLog == [count |-> 0,
          last |-> [key |-> <<>>, start |-> 0, outcome |-> "none", result |-> "none", error |-> 0,
                    tries |-> <<>>, before |-> NoEntry],
          ran |-> [k \in CacheKeys |-> NoEntry]]

\* ToolRegistry(): nothing cached, no call
RegistryIdle ==
    /\ reg = NoCall
    /\ cache = [k \in CacheKeys |-> NoEntry]
    /\ now = 0
    /\ rlog = NoLog

(* -------- ContextManager and the enhanced EventDispatcher, at rest ------ *)
Coroutines == {"c1", "c2"}
CmKeys == {"k1", "k2"}
CmValues == {"v1", "v2"}
\* the key and value a CONTEXT_VARIABLE_SET listener of behaviour "sets" stores
DerivedKey == "kd"
DerivedValue == "vd"
AllCmKeys == CmKeys \cup {DerivedKey}
\* a key or value that is None
Nil == "nil"
NoFrame == <<"none", 0>>
FreeLock == [owner |-> NoFrame, waiters |-> <<>>]
NoCo == [pc |-> "start", key |-> Nil, value |-> Nil, outcome |-> "none", stored |-> <<Nil, Nil>>,
         depth |-> 0, li |-> 0, outer |-> 0]
BusIdle ==
    /\ cm = [variables |-> [k \in AllCmKeys |-> Nil], pending_key |-> Nil, pending_value |-> Nil]
    /\ lock = FreeLock
    /\ handlers = <<>>
    /\ co = [c \in Coroutines |-> NoCo]

(* ---------------------- Agent.execute_function, at rest ----------------- *)
FunctionEvents == {"BEFORE_FUNCTION_EXECUTION", "AFTER_FUNCTION_EXECUTION", "FUNCTION_ERROR"}
NoFx == [pc |-> "idle", name |-> "none", did |-> "none", result |-> "none", error |-> "none",
         outcome |-> "none", value |-> "none"]
AgentIdle ==
    /\ fx = NoFx
    /\ fevents = <<>>
    /\ flisteners = [t \in FunctionEvents |-> <<>>]

LibIdle == StreamIdle /\ FilterIdle /\ ContextIdle /\ ProvidersIdle /\ RegistryIdle /\ BusIdle /\ AgentIdle

\* Schwarm.run has been called, line 101 has run
Init ==
    /\ arg \in RunArgs
    /\ loc = [agent |-> arg.agent, messages |-> arg.messages,
              context_variables |-> arg.context_variables, max_turns |-> arg.max_turns]
    /\ ctx = FreshContext
    /\ created = {}
    /\ trace = <<>>
    /\ batch = NoBatch
    /\ calls = 0
    /\ response = NoResponse
    /\ functions = [a \in Agents |-> DeclaredFunctions(a)]
    /\ pc = "setup"
    /\ NoFrontend
    /\ OrchIdle
    /\ EventsIdle
    /\ WsIdle
    /\ LibIdle

Next ==
    \/ SetupContext
    \/ StartTurn
    \/ Instruct
    \/ MessageCompletion
    \/ Complete
    \/ CompleteRaises
    \/ PostMessageCompletion
    \/ ToolExecution
    \/ HandleTools
    \/ PostToolExecution
    \/ Handoff
    \/ EndTurn
    \/ Return

Spec == Init /\ [][Next]_vars

(* ======================= properties of Schwarm.run ===================== *)
AssistantCount(h) == Cardinality({i \in 1..Len(h) : h[i].role = "assistant"})

Positions(type) == {i \in 1..Len(trace) : trace[i].type = type}

Max(a, b) == IF a >= b THEN a ELSE b

\* position of the first trace entry of this type (there is one)
Min1(type) == CHOOSE i \in Positions(type) : \A j \in Positions(type) : i <= j

\* C1: a turn whose assistant message has no tool calls (or a run with
\* execute_tools = false) is the last turn: no later turn starts and no later
\* model call is made; a run whose first reply has no tool calls ends with one
\* assistant message and turn = 1.
C1_NoToolCallsEndsRun ==
    /\ \A i \in Positions("POST_MESSAGE_COMPLETION") :
          (trace[i].ntc = 0 \/ ~arg.execute_tools)
          => \A j \in (i + 1)..Len(trace) : trace[j].type \notin {"START_TURN", "model.complete"}
    /\ (pc = "done" /\ arg.max_turns >= 1 /\ trace[Min1("POST_MESSAGE_COMPLETION")].ntc = 0)
          => /\ AssistantCount(ctx.message_history) = 1
             /\ ctx.current_turn = 1

\* C2: the Response carries exactly the messages appended during the run (the
\* history without the caller's initial messages), the final current agent and
\* the final context variables.
C2_ResponseIsRunSuffix ==
    pc = "done" =>
        /\ response.messages = SubSeq(ctx.message_history, Len(arg.messages) + 1, Len(ctx.message_history))
        /\ response.agent = ctx.current_agent
        /\ response.context_variables = ctx.context_variables

\* C3: in every reachable state 0 <= turn <= maxTurns, for every maxTurns >= 0;
\* the counter grows by exactly 1 from one loop iteration to the next (the k-th
\* turn that starts has turn = k - 1) and is never decremented.
C3_TurnWithinMaxTurns ==
    /\ 0 <= ctx.current_turn
    /\ ctx.current_turn <= arg.max_turns
    /\ \A i \in Positions("START_TURN") :
          trace[i].turn = Cardinality({j \in Positions("START_TURN") : j < i})
    /\ \A i \in 1..Len(trace) : trace[i].turn <= ctx.current_turn
    /\ \A i \in 1..(Len(trace) - 1) : trace[i].turn <= trace[i + 1].turn

\* What the loop does keep: the body runs once before the budget is tested, so
\* the counter is bounded by max(maxTurns, 1); the rest is as above.
TurnBounded ==
    /\ 0 <= ctx.current_turn
    /\ ctx.current_turn <= Max(arg.max_turns, 1)
    /\ \A i \in Positions("START_TURN") :
          trace[i].turn = Cardinality({j \in Positions("START_TURN") : j < i})
    /\ \A i \in 1..Len(trace) : trace[i].turn <= ctx.current_turn
    /\ \A i \in 1..(Len(trace) - 1) : trace[i].turn <= trace[i + 1].turn

\* C4: START (RunStart) is dispatched exactly once per run, before the first
\* START_TURN; so no agent's providers are sent it twice.
C4_RunStartOnce ==
    /\ Cardinality(Positions("START")) <= 1
    /\ \A i \in Positions("START_TURN") : \E j \in Positions("START") : j < i

\* the trace without the START entries
Lifecycle == SelectSeq(trace, LAMBDA e : e.type # "START")

NewTurn(a, b) == b.type = "START_TURN" /\ b.turn = a.turn + 1

\* what may directly follow what within the lifecycle of a run
Follows(a, b) ==
    CASE a.type = "START_TURN" ->
            b.type = "INSTRUCT" /\ b.turn = a.turn
      [] a.type = "INSTRUCT" ->
            b.type = "MESSAGE_COMPLETION" /\ b.turn = a.turn
      [] a.type = "MESSAGE_COMPLETION" ->
            b.type = "model.complete" /\ b.turn = a.turn /\ b.hist = a.hist
      [] a.type = "model.complete" ->
            b.type = "POST_MESSAGE_COMPLETION" /\ b.turn = a.turn /\ b.hist = a.hist + 1
      [] a.type = "POST_MESSAGE_COMPLETION" ->
            \/ b.type = "TOOL_EXECUTION" /\ b.turn = a.turn /\ b.hist = a.hist
               /\ a.ntc > 0 /\ arg.execute_tools
            \/ NewTurn(a, b)
      [] a.type = "TOOL_EXECUTION" ->
            b.type = "tool.batch" /\ b.turn = a.turn /\ b.hist = a.hist
      [] a.type = "tool.batch" ->
            b.type = "POST_TOOL_EXECUTION" /\ b.turn = a.turn
            /\ b.hist = a.hist + a.ntc /\ b.vars = Update(a.vars, a.patch)
      [] a.type = "POST_TOOL_EXECUTION" ->
            \/ b.type = "HANDOFF" /\ b.turn = a.turn /\ b.agent # a.agent /\ b.hist = a.hist
            \/ NewTurn(a, b)
      [] a.type = "HANDOFF" -> NewTurn(a, b)
      [] OTHER -> FALSE

\* C5: within a turn the events come in the order START_TURN, INSTRUCT,
\* MESSAGE_COMPLETION, model call with the assistant message appended,
\* POST_MESSAGE_COMPLETION, then only for an executed tool batch TOOL_EXECUTION
\* before the tools, POST_TOOL_EXECUTION after the batch's messages and patch
\* are in the context, HANDOFF last and only on an agent change; the next
\* turn's events come after all of these.
C5_EventOrder ==
    /\ Lifecycle # <<>> => Lifecycle[1].type = "START_TURN" /\ Lifecycle[1].turn = 0
    /\ \A i \in 1..(Len(Lifecycle) - 1) : Follows(Lifecycle[i], Lifecycle[i + 1])

C5_Witness ==
    /\ pc = "done"
    /\ \E i \in Positions("HANDOFF") : \E j \in Positions("TOOL_EXECUTION") : j > i

\* C6: currentAgent changes only with a HANDOFF event: every event and every
\* model call sees the agent of the entry before it unless it is a HANDOFF,
\* and the context's current agent is the one last seen.
C6_AgentConstantBetweenHandoffs ==
    /\ \A i \in 1..(Len(trace) - 1) :
          trace[i + 1].type # "HANDOFF" => trace[i + 1].agent = trace[i].agent
    /\ trace # <<>> => /\ trace[1].agent = arg.agent
                       /\ ctx.current_agent = trace[Len(trace)].agent

C6_Witness ==
    \E i \in Positions("HANDOFF") : \E j \in Positions("model.complete") :
        j > i /\ trace[j].agent = trace[i].agent /\ trace[j].agent # arg.agent

\* has the handoff step of the batch at trace position i been taken?
PastHandoffStep(i) == i + 2 <= Len(trace) \/ (i + 1 = Len(trace) /\ pc # "handoff")

\* C7: a HANDOFF event comes right after the POST_TOOL_EXECUTION of a batch
\* that designates an agent other than the one that ran the turn; it shows
\* previousAgent = the agent that ran the turn and currentAgent = the
\* designated agent, POST_TOOL_EXECUTION still showed the old agent; a batch
\* that designates no agent or the current one is followed by no HANDOFF.
C7_HandoffEvent ==
    /\ \A i \in Positions("HANDOFF") :
          /\ i >= 3
          /\ trace[i - 1].type = "POST_TOOL_EXECUTION"
          /\ trace[i - 2].type = "tool.batch"
          /\ trace[i - 1].agent = trace[i - 2].agent
          /\ trace[i].prev = trace[i - 2].agent
          /\ trace[i].agent = trace[i - 2].next
          /\ trace[i].turn = trace[i - 2].turn
    /\ \A i \in Positions("tool.batch") :
          PastHandoffStep(i) =>
             ((trace[i].next # None /\ trace[i].next # trace[i].agent)
                <=> (i + 2 <= Len(trace) /\ trace[i + 2].type = "HANDOFF"))

C7_Witness ==
    /\ pc = "done"
    /\ \E i \in Positions("HANDOFF") : trace[i].prev = "router" /\ trace[i].agent = "worker"
    /\ \E i \in Positions("tool.batch") : trace[i].next = trace[i].agent

\* C8: at a HANDOFF event the providers of the agent that became current exist.
C8_MaterialisedBeforeHandoff ==
    \A i \in Positions("HANDOFF") : trace[i].agent \in trace[i].created

(* ============================ Orchestrator ============================= *)
\* a key the dict does not have
Missing == "missing"
\* a local variable that has not been assigned
Unbound == "unbound"

\* Agent.tools of the refactor agent: echo returns its arguments, boom raises
OTools == <<"echo", "boom">>

\* names a tool call may carry: the two tools and one that is not registered
OToolNames == {"echo", "boom", "ghost"}

\* the "arguments" of a tool call: the object {x: 1} itself, or a raw string
ArgValues == {"OBJ", "{x:1}", "[1]", "oops"}

IsStr(a) == a \in {"{x:1}", "[1]", "oops"}

\* json.loads: an object, a list, or JSONDecodeError
JsonLoads(str) ==
    CASE str = "{x:1}" -> [ok |-> TRUE, mapping |-> TRUE, items |-> << <<"x", "1">> >>]
      [] str = "[1]"   -> [ok |-> TRUE, mapping |-> FALSE, items |-> <<>>]
      [] OTHER         -> [ok |-> FALSE, mapping |-> FALSE, items |-> <<>>]

\* lines 26-31: the arguments the tool is called with
DecodeArgs(tool_call) ==
    LET args == tool_call.arguments
    IN  IF args = Missing THEN [mapping |-> TRUE, items |-> <<>>]
        ELSE IF IsStr(args)
             THEN IF JsonLoads(args).ok
                  THEN [mapping |-> JsonLoads(args).mapping, items |-> JsonLoads(args).items]
                  ELSE [mapping |-> TRUE, items |-> << <<"input", args>> >>]
             ELSE [mapping |-> TRUE, items |-> << <<"x", "1">> >>]

\* Agent.execute_tool: the first tool of that name is called, else ValueError
AgentExecuteTool(name, items) ==
    IF name \notin Range(OTools) THEN [raised |-> TRUE, value |-> << <<"ValueError", "not found">> >>]
    ELSE IF name = "boom" THEN [raised |-> TRUE, value |-> << <<"RuntimeError", "boom">> >>]
    ELSE [raised |-> FALSE, value |-> items]

OMsg(role, content, tcs) == [role |-> role, content |-> content, tool_calls |-> tcs]

ExceptHandler_DropsMessage(acc, name, exc) ==
    IF name = Unbound THEN [acc EXCEPT !.raised = TRUE] ELSE [acc EXCEPT !.name = name]

\* lines 43-46: the handler formats the message with the local `name`; while
\* `name` is unbound that raises UnboundLocalError out of _execute_tool
ExceptHandler(acc, name, exc) ==
    IF name = Unbound
    THEN [acc EXCEPT !.raised = TRUE]
    ELSE [acc EXCEPT !.messages = Append(@, OMsg("tool", <<"error", name, exc>>, <<>>)), !.name = name]

\* lines 24-46: one iteration of the loop
ExecuteOne(acc, tool_call) ==
    IF tool_call.name = Missing
    THEN ExceptHandler(acc, acc.name, << <<"KeyError", "name">> >>)
    ELSE LET name == tool_call.name
             args == DecodeArgs(tool_call)
         IN  IF ~args.mapping
             THEN ExceptHandler(acc, name, << <<"TypeError", "mapping">> >>)
             ELSE LET r == AgentExecuteTool(name, args.items)
                  IN  IF r.raised
                      THEN ExceptHandler(acc, name, r.value)
                      ELSE [acc EXCEPT !.messages = Append(@, OMsg("tool", <<"result", name, r.value>>, <<>>)),
                                       !.name = name]

RECURSIVE ExecuteFrom(_, _)
ExecuteFrom(acc, tool_calls) ==
    IF tool_calls = <<>> \/ acc.raised THEN acc
    ELSE ExecuteFrom(ExecuteOne(acc, Head(tool_calls)), Tail(tool_calls))

\* Orchestrator._execute_tool: the tool messages, or an exception that left it
ExecuteTool(tool_calls) ==
    ExecuteFrom([messages |-> <<>>, name |-> Unbound, raised |-> FALSE], tool_calls)

\* tool-call records as dicts: either key may be absent
ToolCallRecords == [name : OToolNames \cup {Missing}, arguments : ArgValues \cup {Missing}]

\* LLMProvider._extract_content keeps only calls that have a name and arguments
ExtractedToolCalls == {r \in ToolCallRecords : r.name # Missing /\ r.arguments # Missing}

SeqsUpTo(S, n) == UNION {[1..k -> S] : k \in 0..n}

RECURSIVE CallsIn(_)
CallsIn(conv) == IF conv = <<>> THEN 0 ELSE Len(Head(conv).tool_calls) + CallsIn(Tail(conv))

OSystemMsg == OMsg("system", <<"instructions">>, <<>>)
OUserMsg == OMsg("user", <<"input">>, <<>>)
NoOResult == [messages |-> <<>>, raised |-> FALSE]

\* LLMProvider.complete: the model's message, or on any exception an assistant
\* message that reports it (no tool calls)
LLMResults(budget) ==
    {OMsg("assistant", <<"reply">>, tcs) : tcs \in SeqsUpTo(ExtractedToolCalls, budget)}
    \cup {OMsg("assistant", <<"Error generating completion">>, <<>>)}

LoopGuard_OffByOne(turn, max_turns) == turn <= max_turns

\* line 65: the condition of the while loop
LoopGuard(turn, max_turns) == turn < max_turns

\* lines 68-71: llm.complete, the assistant message is appended
OrchComplete ==
    /\ opc = "loop"
    /\ LoopGuard(current_turn, oarg.max_turns)
    /\ \E m \in LLMResults(OrchMaxCalls - CallsIn(conversation)) :
          conversation' = Append(conversation, m)
    /\ opc' = "check"
    /\ UNCHANGED <<oarg, instruction_calls, current_turn, oresult, svars, gvars, xvars>>

\* lines 74-84
OrchTools ==
    /\ opc = "check"
    /\ LET message == conversation[Len(conversation)]
           r == ExecuteTool(message.tool_calls)
       IN  IF message.tool_calls # <<>>
           THEN IF r.raised
                THEN /\ opc' = "raised"
                     /\ UNCHANGED <<conversation, current_turn>>
                ELSE /\ conversation' = conversation \o r.messages
                     /\ current_turn' = current_turn + 1
                     /\ opc' = "loop"
           ELSE /\ opc' = "return"
                /\ UNCHANGED <<conversation, current_turn>>
    /\ UNCHANGED <<oarg, instruction_calls, oresult, svars, gvars, xvars>>

\* lines 86-89
OrchReturn ==
    /\ \/ opc = "return"
       \/ opc = "loop" /\ ~LoopGuard(current_turn, oarg.max_turns)
    /\ oresult' = [messages |-> Tail(conversation), raised |-> FALSE]
    /\ opc' = "done"
    /\ UNCHANGED <<oarg, instruction_calls, conversation, current_turn, svars, gvars, xvars>>

\* _execute_tool called with a batch of the caller's
ExecuteToolCall ==
    /\ opc = "execute"
    /\ LET r == ExecuteTool(oarg.tool_calls)
       IN  /\ oresult' = [messages |-> r.messages, raised |-> r.raised]
           /\ opc' = IF r.raised THEN "raised" ELSE "done"
    /\ UNCHANGED <<oarg, instruction_calls, conversation, current_turn, svars, gvars, xvars>>

OrchArgs ==
    [entry : {"run_conversation"}, messages : {<<OUserMsg>>}, max_turns : 0..OrchMaxTurns,
     tool_calls : {<<>>}]
    \cup
    [entry : {"_execute_tool"}, messages : {<<>>}, max_turns : {0},
     tool_calls : SeqsUpTo(ToolCallRecords, MaxBatch)]

SchwarmIdle ==
    /\ pc = "idle"
    /\ arg = [agent |-> "router", messages |-> <<>>, context_variables |-> NoVars,
              max_turns |-> 0, execute_tools |-> FALSE, model_calls |-> 0]
    /\ loc = [agent |-> "router", messages |-> <<>>, context_variables |-> NoVars, max_turns |-> 0]
    /\ ctx = FreshContext
    /\ created = {}
    /\ trace = <<>>
    /\ batch = NoBatch
    /\ calls = 0
    /\ response = NoResponse
    /\ functions = [a \in Agents |-> DeclaredFunctions(a)]
    /\ NoFrontend

\* run_conversation after line 63, or _execute_tool on entry
InitOrch ==
    /\ oarg \in OrchArgs
    /\ conversation = IF oarg.entry = "run_conversation" THEN <<OSystemMsg>> \o oarg.messages ELSE <<>>
    /\ current_turn = 0
    /\ opc = IF oarg.entry = "run_conversation" THEN "loop" ELSE "execute"
    /\ oresult = NoOResult
    /\ instruction_calls = IF oarg.entry = "run_conversation" THEN 1 ELSE 0
    /\ SchwarmIdle
    /\ EventsIdle
    /\ WsIdle
    /\ LibIdle

NextOrch ==
    \/ OrchComplete
    \/ OrchTools
    \/ OrchReturn
    \/ ExecuteToolCall

SpecOrch == InitOrch /\ [][NextOrch]_vars

(* ===================== properties of the Orchestrator ================== *)
\* has the tool batch of the assistant message at position i been executed?
BatchDone(i) == i < Len(conversation) \/ opc # "check"

\* C9: an assistant message with n >= 1 tool calls whose batch was executed is
\* followed by exactly n tool messages, the k-th one answering the k-th call
\* (result or error), and then by the end of the conversation or the next
\* assistant message; every tool message stands in such a block.
C9_ToolMessagesFollowCalls ==
    opc \in {"loop", "check", "return", "done"} =>
    /\ \A i \in 1..Len(conversation) :
          LET m == conversation[i]  n == Len(m.tool_calls)
          IN  (m.role = "assistant" /\ n >= 1 /\ BatchDone(i)) =>
                 /\ i + n <= Len(conversation)
                 /\ \A k \in 1..n :
                       /\ conversation[i + k].role = "tool"
                       /\ conversation[i + k].content[1] \in {"result", "error"}
                       /\ conversation[i + k].content[2] = m.tool_calls[k].name
                 /\ i + n < Len(conversation) => conversation[i + n + 1].role = "assistant"
    /\ \A j \in 1..Len(conversation) :
          conversation[j].role = "tool" =>
             \E i \in 1..(j - 1) :
                /\ conversation[i].role = "assistant"
                /\ j - i <= Len(conversation[i].tool_calls)
                /\ \A k \in (i + 1)..j : conversation[k].role = "tool"

C9_Witness ==
    /\ opc = "done"
    /\ \E i \in 1..Len(conversation) :
          /\ conversation[i].role = "assistant" /\ Len(conversation[i].tool_calls) = 2
          /\ i + 2 <= Len(conversation)
          /\ conversation[i + 1].content[1] = "error"
          /\ conversation[i + 2].content[1] = "result"

\* C10: no error of a tool call leaves _execute_tool: every call of the batch,
\* whatever is wrong with it, gets its own tool message, and run_conversation
\* goes on.
C10_NoToolErrorEscapes ==
    /\ opc # "raised"
    /\ (opc = "done" /\ oarg.entry = "_execute_tool") =>
          Len(oresult.messages) = Len(oarg.tool_calls)

\* C11: a failure of the model adapter does not abort the run with an
\* exception: no run ends in an exception raised by the completion, and a run
\* that is over has returned its Response.
C11_ModelFailureMaterialised ==
    /\ pc \notin CompletionFailures
    /\ opc # "raised" \/ oarg.entry # "run_conversation"

(* ================ further properties of Schwarm.run ==================== *)
\* C24: the RunEnd event is dispatched exactly once per run, after the turn
\* loop has exited and after every other event of the run: when run has
\* returned, the trace holds one RUN_END entry and it is the last entry.
C24_RunEndOnce ==
    pc = "done" =>
        /\ Cardinality(Positions("RUN_END")) = 1
        /\ trace[Len(trace)].type = "RUN_END"

IsPrefix(a, b) == Len(a) <= Len(b) /\ SubSeq(b, 1, Len(a)) = a

\* C25: the message history of a run is append-only: every step of the run,
\* within a turn and across a turn boundary, leaves the earlier history as a
\* prefix of the later one.
C25_HistoryAppendOnly ==
    [][IsPrefix(ctx.message_history, ctx'.message_history)]_vars

\* a second turn has been set up on a history that grew in the first
C25_Witness ==
    /\ ctx.current_turn >= 1
    /\ pc = "start_turn"
    /\ Len(ctx.message_history) > Len(arg.messages) + 1

NoSystem(h) == \A i \in 1..Len(h) : h[i].role # "system"

\* C26: the system message is the first message of every model input and the
\* only system message in it, and it is never stored: neither the history,
\* nor the messages carried to the next turn, nor the messages of the
\* Response contain a system message.
C26_SystemMessageNotStored ==
    /\ pc \in {"message_completion", "complete"} =>
          /\ ModelInput(ctx)[1] = SystemMsg
          /\ NoSystem(Tail(ModelInput(ctx)))
    /\ NoSystem(ctx.message_history)
    /\ NoSystem(loc.messages)
    /\ NoSystem(response.messages)

\* a model call of a later turn, on a history with assistant and tool messages
C26_Witness ==
    /\ pc = "complete"
    /\ ctx.current_turn >= 1
    /\ Len(ModelInput(ctx)) >= 3

\* what the claim has the tool called with: the object itself, the decoded
\* object of a raw string, or the raw string under the key input
ExpectedItems(arguments) ==
    IF ~IsStr(arguments) THEN << <<"x", "1">> >>
    ELSE IF JsonLoads(arguments).ok /\ JsonLoads(arguments).mapping
         THEN JsonLoads(arguments).items
         ELSE << <<"input", arguments>> >>

\* C28: _execute_tool invokes the tool of every call that carries arguments:
\* with the keys of the decoded object when the raw string decodes, with
\* input = the raw string when it does not, and with the object unchanged
\* when the arguments are an object already. (echo answers with the
\* arguments it was called with.)
C28_ArgumentsDecodedOrWrapped ==
    (opc = "done" /\ oarg.entry = "_execute_tool") =>
        \A i \in 1..Len(oarg.tool_calls) :
            LET tool_call == oarg.tool_calls[i]
            IN  (tool_call.name = "echo" /\ tool_call.arguments # Missing) =>
                    oresult.messages[i].content =
                        <<"result", "echo", ExpectedItems(tool_call.arguments)>>

RECURSIVE ModelCalls(_)
ModelCalls(conv) ==
    IF conv = <<>> THEN 0
    ELSE (IF Head(conv).role = "assistant" THEN 1 ELSE 0) + ModelCalls(Tail(conv))

\* C30: run_conversation terminates and is bounded: the turn counter never
\* exceeds max_turns, at most max_turns model calls are made (none when
\* max_turns = 0), an assistant message without tool calls is the last
\* message of the conversation, and the run never stops short of its return
\* (no exception leaves it and a step is possible until it has returned).
C30_RunConversationBounded ==
    oarg.entry = "run_conversation" =>
        /\ current_turn <= oarg.max_turns
        /\ ModelCalls(conversation) <= oarg.max_turns
        /\ \A i \in 1..Len(conversation) :
              (conversation[i].role = "assistant" /\ conversation[i].tool_calls = <<>>)
                  => i = Len(conversation)
        /\ opc # "raised"
        /\ opc = "done" \/ ENABLED NextOrch
        /\ opc = "done" =>
              \/ current_turn = oarg.max_turns
              \/ conversation[Len(conversation)].tool_calls = <<>>

\* C31: an agent's instruction function is called exactly once per turn: a
\* run_conversation that has made model calls has asked the agent for its
\* system message once for each of them.
C31_InstructionsOncePerTurn ==
    (oarg.entry = "run_conversation" /\ opc = "done" /\ ModelCalls(conversation) >= 1) =>
        instruction_calls = ModelCalls(conversation)

\* the loop ran out of turns with tool calls in every reply
C30_Witness ==
    /\ oarg.entry = "run_conversation"
    /\ opc = "done"
    /\ oarg.max_turns >= 1
    /\ current_turn = oarg.max_turns
    /\ ModelCalls(conversation) = oarg.max_turns

\* the caller's context variables with the patches of the first n entries of
\* the trace laid over them in order: a key of a patch wins, the others stay
RECURSIVE Overlaid(_)
Overlaid(n) ==
    IF n = 0 THEN arg.context_variables
    ELSE LET below == Overlaid(n - 1)
             e == trace[n]
         IN  IF e.type = "tool.batch"
             THEN [k \in Keys |-> IF e.patch[k] # None THEN e.patch[k] ELSE below[k]]
             ELSE below

\* C32: the patch of a tool batch is in the run's context variables when
\* POST_TOOL_EXECUTION is dispatched, patch values over existing keys and the
\* other keys as they were; every later event, model call and tool batch
\* sees the variables with all earlier patches merged, and so does the
\* Response.
C32_PatchMergedAndKept ==
    /\ \A i \in 1..Len(trace) : trace[i].vars = Overlaid(i - 1)
    /\ pc = "post_tool_execution" => ctx.context_variables = Overlaid(Len(trace))
    /\ pc = "done" => response.context_variables = Overlaid(Len(trace))

\* two batches, the second one overriding a key the first one set, and a
\* Response after them
C32_Witness ==
    /\ pc = "done"
    /\ \E i, j \in 1..Len(trace) :
          /\ i < j
          /\ trace[i].type = "tool.batch" /\ trace[i].patch["last"] = "worker"
          /\ trace[j].type = "tool.batch" /\ trace[j].patch["last"] = "router"
          /\ trace[j].vars["last"] = "worker"
    /\ response.context_variables["last"] = "router"
    /\ response.context_variables["user"] = "u"

NoRepeats(list) == \A i, j \in 1..Len(list) : list[i] = list[j] => i = j

\* C38: when an event has been dispatched, the context it was dispatched
\* with (the context is not touched until the next event or model call)
\* has its current agent among the available agents and every function of
\* that agent among the available tools, and neither list holds an entry
\* twice.
C38_CurrentAgentAvailable ==
    (trace # <<>> /\ trace[Len(trace)].type \in RunEvents) =>
        /\ ctx.current_agent \in Range(ctx.available_agents)
        /\ Range(functions[ctx.current_agent]) \subseteq Range(AvailableTools(ctx, functions))
        /\ NoRepeats(ctx.available_agents)
        /\ NoRepeats(AvailableTools(ctx, functions))

(* ========================= EventDispatcher ============================= *)
\* the two dispatcher classes
Dispatchers == {"schwarm", "schwarma_core"}
\* what a listener does when called
Behaviours == {"returns", "raises"}

\* number of listeners registered so far
Registered == Len(listeners["AGENT_INITIALIZED"]) + Len(listeners["AGENT_DESTROYED"])

\* add_listener: append to the list of the event type; the listener is named
\* by its registration number
AddListener ==
    /\ dpc = "idle"
    /\ Registered < MaxListeners
    /\ \E t \in EventTypes, b \in Behaviours :
          listeners' = [listeners EXCEPT ![t] = Append(@, [id |-> Registered + 1, behaviour |-> b])]
    /\ UNCHANGED <<dispatcher, dpc, event, cursor, invoked, svars, gvars, ovars, wvars, yvars>>

\* dispatch is called with an event of type t: the for loop starts, or there
\* is no list for the type and dispatch returns
Dispatch ==
    /\ dpc = "idle"
    /\ \E t \in EventTypes :
          /\ event' = t
          /\ dpc' = IF listeners[t] # <<>> THEN "loop" ELSE "returned"
    /\ cursor' = 1
    /\ invoked' = <<>>
    /\ UNCHANGED <<dispatcher, listeners, svars, gvars, ovars, wvars, yvars>>

\* a variant that lets the listener's exception leave dispatch
SchwarmAfterListener_Propagates(behaviour) ==
    IF behaviour = "raises" THEN "raised" ELSE "loop"
\* schwarm/events.py lines 102-106: try / except Exception: pass
SchwarmAfterListener(behaviour) == "loop"

\* schwarma_core/events.py lines 96-100: the call has no handler
CoreAfterListener(behaviour) ==
    IF behaviour = "raises" THEN "raised" ELSE "loop"

\* one iteration of the for loop: the listener is called
NotifyListener ==
    /\ dpc = "loop"
    /\ cursor <= Len(listeners[event])
    /\ LET l == listeners[event][cursor] IN
          /\ invoked' = Append(invoked, l.id)
          /\ dpc' = IF dispatcher = "schwarm" THEN SchwarmAfterListener(l.behaviour)
                                               ELSE CoreAfterListener(l.behaviour)
    /\ cursor' = cursor + 1
    /\ UNCHANGED <<dispatcher, listeners, event, svars, gvars, ovars, wvars, yvars>>

\* the for loop is exhausted: dispatch returns
DispatchReturn ==
    /\ dpc = "loop"
    /\ cursor > Len(listeners[event])
    /\ dpc' = "returned"
    /\ UNCHANGED <<dispatcher, listeners, event, cursor, invoked, svars, gvars, ovars, wvars, yvars>>

\* the caller goes on after dispatch returned
DispatchDone ==
    /\ dpc = "returned"
    /\ dpc' = "idle"
    /\ UNCHANGED <<dispatcher, listeners, event, cursor, invoked, svars, gvars, ovars, wvars, yvars>>

\* a dispatcher of either class has been constructed
InitEvents ==
    /\ dispatcher \in Dispatchers
    /\ listeners = [t \in EventTypes |-> <<>>]
    /\ dpc = "idle"
    /\ event = "none"
    /\ cursor = 0
    /\ invoked = <<>>
    /\ SchwarmIdle
    /\ OrchIdle
    /\ WsIdle
    /\ LibIdle

NextEvents ==
    \/ AddListener
    \/ Dispatch
    \/ NotifyListener
    \/ DispatchReturn
    \/ DispatchDone

SpecEvents == InitEvents /\ [][NextEvents]_vars

(* ================= properties of the EventDispatchers ================== *)
\* the registration numbers of the listeners of type t, in registration order
IdsOf(t) == [i \in 1..Len(listeners[t]) |-> listeners[t][i].id]

\* C12: dispatch of the schwarm EventDispatcher never lets a listener's
\* exception reach its caller; when it returns, every listener registered for
\* the event's type has been called exactly once, in registration order, also
\* the ones after a failing listener, and no listener of another type has.
C12_DispatchIsolatesListeners ==
    dispatcher = "schwarm" /\ event # "none" =>
        /\ dpc # "raised"
        /\ invoked = SubSeq(IdsOf(event), 1, Len(invoked))
        /\ dpc = "returned" => invoked = IdsOf(event)

\* a dispatch returned after a listener raised and a later listener ran
C12_Witness ==
    /\ dispatcher = "schwarm"
    /\ dpc = "returned"
    /\ \E i \in 1..Len(invoked) :
          listeners[event][i].behaviour = "raises" /\ i < Len(invoked)

\* C13: a listener error never escapes dispatch of the schwarma_core
\* EventDispatcher, and the listeners after the failing one still run.
C13_CoreDispatchIsolatesListeners ==
    dispatcher = "schwarma_core" /\ event # "none" =>
        /\ dpc # "raised"
        /\ dpc = "returned" => invoked = IdsOf(event)

(* ========================= WebsocketManager2 =========================== *)
\* a coroutine runs until it awaits something that is not ready: while a
\* handler is between two awaits (in the flush loop before client.send, or in
\* the inner while of _send_queued_messages, which has no await) the event
\* loop runs nothing else
LoopFree == \A w \in Sockets : hpc[w] \notin {"flush", "restore"}

\* client.send on a websocket: the peer receives the message, or the
\* connection is closed and ConnectionClosed is raised
CanSend(w) == conn[w] = "open"

\* lines 26-41: send_message, with _send_safe for every connected client
SendMessage ==
    /\ LoopFree
    /\ nsent < MaxMessages
    /\ nsent' = nsent + 1
    /\ IF clients # {}
          THEN /\ received' = [w \in Sockets |->
                                  IF w \in clients /\ CanSend(w)
                                     THEN Append(received[w], nsent + 1)
                                     ELSE received[w]]
               /\ clients' = {w \in clients : CanSend(w)}
               /\ UNCHANGED queue
          ELSE /\ queue' = Append(queue, nsent + 1)
               /\ UNCHANGED <<received, clients>>
    /\ UNCHANGED <<conn, hpc, svars, gvars, ovars, evars, yvars>>

\* lines 98-104 and 45: a client connects, handle_client registers it and
\* enters _send_queued_messages
Connect ==
    /\ LoopFree
    /\ \E w \in Sockets :
          /\ hpc[w] = "idle"
          /\ conn' = [conn EXCEPT ![w] = "open"]
          /\ clients' = clients \cup {w}
          /\ hpc' = [hpc EXCEPT ![w] = IF queue # <<>> THEN "flush" ELSE "listen"]
    /\ UNCHANGED <<queue, nsent, received, svars, gvars, ovars, evars, yvars>>

\* lines 47-54: one pass of the flush loop up to the await of client.send, or
\* the loop's exit; on ConnectionClosed the message goes back to the front
FlushStep ==
    /\ \E w \in Sockets :
          /\ hpc[w] = "flush"
          /\ IF queue = <<>>
                THEN /\ hpc' = [hpc EXCEPT ![w] = "listen"]
                     /\ UNCHANGED <<queue, received>>
                ELSE IF CanSend(w)
                        THEN /\ queue' = Tail(queue)
                             /\ received' = [received EXCEPT ![w] = Append(@, Head(queue))]
                             /\ hpc' = [hpc EXCEPT ![w] = "flush_await"]
                        ELSE /\ queue' = <<Head(queue)>> \o Tail(queue)
                             /\ hpc' = [hpc EXCEPT ![w] = "restore"]
                             /\ UNCHANGED received
    /\ UNCHANGED <<clients, nsent, conn, svars, gvars, ovars, evars, yvars>>

\* line 50: the await of client.send returns, back to the loop test
FlushResume ==
    /\ LoopFree
    /\ \E w \in Sockets :
          /\ hpc[w] = "flush_await"
          /\ hpc' = [hpc EXCEPT ![w] = "flush"]
    /\ UNCHANGED <<clients, queue, nsent, received, conn, svars, gvars, ovars, evars, yvars>>

\* deque.appendleft(deque.pop())
Rotate(q) == <<q[Len(q)]>> \o SubSeq(q, 1, Len(q) - 1)

\* lines 55-57: one pass of `while self._message_queue`, or its exit and the
\* break out of the flush
Restore ==
    /\ \E w \in Sockets :
          /\ hpc[w] = "restore"
          /\ IF queue # <<>>
                THEN /\ queue' = Rotate(queue)
                     /\ UNCHANGED hpc
                ELSE /\ hpc' = [hpc EXCEPT ![w] = "listen"]
                     /\ UNCHANGED queue
    /\ UNCHANGED <<clients, nsent, received, conn, svars, gvars, ovars, evars, yvars>>

\* the peer closes its connection
PeerCloses ==
    /\ \E w \in Sockets :
          /\ conn[w] = "open"
          /\ conn' = [conn EXCEPT ![w] = "closed"]
    /\ UNCHANGED <<clients, queue, nsent, received, hpc, svars, gvars, ovars, evars, yvars>>

\* lines 107-115: the receive loop ends on the closed connection and the
\* finally block removes the websocket; set.remove raises KeyError when
\* _send_safe has removed it already
HandlerEnds ==
    /\ LoopFree
    /\ \E w \in Sockets :
          /\ hpc[w] = "listen"
          /\ conn[w] = "closed"
          /\ hpc' = [hpc EXCEPT ![w] = IF w \in clients THEN "done" ELSE "raised"]
          /\ clients' = clients \ {w}
    /\ UNCHANGED <<queue, nsent, received, conn, svars, gvars, ovars, evars, yvars>>

\* the server is up, nobody has connected
InitWs ==
    /\ WsIdle
    /\ LibIdle
    /\ SchwarmIdle
    /\ OrchIdle
    /\ EventsIdle

NextWs ==
    \/ SendMessage
    \/ Connect
    \/ FlushStep
    \/ FlushResume
    \/ Restore
    \/ PeerCloses
    \/ HandlerEnds

SpecWs == InitWs /\ [][NextWs]_vars

(* ================= properties of WebsocketManager2 ===================== *)
\* is the sequence of message numbers in the order of the send_message calls,
\* without repetition?
InSendOrder(q) == \A i, j \in 1..Len(q) : i < j => q[i] < q[j]

\* C19: outbound messages are delivered in the order of the send_message
\* calls and at most once to a client, also when they were queued and flushed
\* on connect or sent while the flush is under way; the messages a cut flush
\* leaves in the queue are in their original order.
C19_FifoExactlyOnce ==
    /\ \A w \in Sockets : InSendOrder(received[w])
    /\ InSendOrder(queue)

\* C20: when the connection closes during the flush, _send_queued_messages
\* terminates (its restoring loop rotates the queue and ends only on an empty
\* queue, so it must find the queue empty), and the cleanup of handle_client
\* completes without raising.
C20_SocketFailureTerminates ==
    \A w \in Sockets :
        /\ hpc[w] = "restore" => queue = <<>>
        /\ hpc[w] # "raised"

(* ====================== control plane, inbound ========================= *)
\* the events the frontend sets break points on
BreakEvents == {"START_TURN", "HANDOFF"}
\* the texts the user types
Texts == {"hi"}

\* control messages, one record shape for all kinds
SetPausedMsg(b) == [kind |-> "SetPaused", paused |-> b, turns |-> 0, event_type |-> "", text |-> ""]
SetStepMsg(n) == [kind |-> "SetStep", paused |-> FALSE, turns |-> n, event_type |-> "", text |-> ""]
SetBreakpointMsg(e) == [kind |-> "SetBreakpoint", paused |-> FALSE, turns |-> 0, event_type |-> e, text |-> ""]
UserInputMsg(t) == [kind |-> "UserInput", paused |-> FALSE, turns |-> 0, event_type |-> "", text |-> t]

OnSetBreak_Flips(g, b) == [g EXCEPT !.global_break = ~@]

\* break_status_websocket line 188: pm._global_break = data["set_break"]
OnSetBreak(g, b) == [g EXCEPT !.global_break = b]

\* server.py lines 75-78: a BREAK message with a non-empty payload
OnBreakMessage(g, payload) ==
    IF payload = "" THEN g ELSE [g EXCEPT !.global_break = (payload = "True")]

\* set_breakpoint_number line 211: pm.breakpoint_counter = turn_amount - 1
OnSetStep(g, turn_amount) == [g EXCEPT !.breakpoint_counter = turn_amount - 1]

\* ProviderManager.toggle_breakpoint: the event joins the active break points
ToggleBreakpoint(breakpoint, event_type) == breakpoint \cup {event_type}

\* toggle_breakpoint lines 224-227
OnSetBreakpoint(g, event_type) == [g EXCEPT !.breakpoint = ToggleBreakpoint(@, event_type)]

OnUserInput_KeepsBreak(g, text) == [g EXCEPT !.last_user_input = text]

\* chat_websocket_endpoint lines 273-274
OnUserInput(g, text) == [g EXCEPT !.last_user_input = text, !.global_break = FALSE]

\* chat_status_websocket line 247: the frontend asks the user for input
ChatRequested(g) == g.global_break /\ g.wait_for_user_input

\* the turns the armed counter lets the run go on before the gate engages
\* again: the stored value is the turn amount less one
StepsAllowed(g) == g.breakpoint_counter + 1

\* /ws/break-status receives {"set_break": b}: lines 185-190, with the broadcast
SetBreak ==
    /\ Len(inbox) < MaxInbound
    /\ \E b \in BOOLEAN :
          /\ gate' = OnSetBreak(gate, b)
          /\ outbox' = Append(outbox, b)
          /\ inbox' = Append(inbox, SetPausedMsg(b))
    /\ UNCHANGED <<wait, break_on, svars, ovars, xvars>>

\* the WebsocketManager2 server receives a BREAK message
BreakMessage ==
    /\ Len(inbox) < MaxInbound
    /\ \E payload \in {"True", "False"} :
          /\ gate' = OnBreakMessage(gate, payload)
          /\ inbox' = Append(inbox, SetPausedMsg(payload = "True"))
    /\ UNCHANGED <<wait, break_on, outbox, svars, ovars, xvars>>

\* POST /breakpoint/turns
SetStep ==
    /\ Len(inbox) < MaxInbound
    /\ \E n \in 1..MaxStep :
          /\ gate' = OnSetStep(gate, n)
          /\ inbox' = Append(inbox, SetStepMsg(n))
    /\ UNCHANGED <<wait, break_on, outbox, svars, ovars, xvars>>

\* POST /breakpoint
SetBreakpoint ==
    /\ Len(inbox) < MaxInbound
    /\ \E e \in BreakEvents :
          /\ gate' = OnSetBreakpoint(gate, e)
          /\ inbox' = Append(inbox, SetBreakpointMsg(e))
    /\ UNCHANGED <<wait, break_on, outbox, svars, ovars, xvars>>

\* /ws/chat receives the text the user typed when asked: lines 267-280
UserInput ==
    /\ Len(inbox) < MaxInbound
    /\ ChatRequested(gate)
    /\ \E t \in Texts :
          /\ gate' = OnUserInput(gate, t)
          /\ inbox' = Append(inbox, UserInputMsg(t))
    /\ outbox' = Append(outbox, FALSE)
    /\ UNCHANGED <<wait, break_on, svars, ovars, xvars>>

\* the exporter's API is up, no run is going on
InitControl ==
    /\ SchwarmIdle
    /\ OrchIdle
    /\ EventsIdle
    /\ WsIdle
    /\ LibIdle

NextControl ==
    \/ SetBreak
    \/ BreakMessage
    \/ SetStep
    \/ SetBreakpoint

SpecControl == InitControl /\ [][NextControl]_vars

(* ====================== Schwarm.run with a frontend ==================== *)
GateArgs ==
    [agent : {"router"}, messages : {<<>>},
     context_variables : {[NoVars EXCEPT !["user"] = "u"]},
     max_turns : 1..GateTurns, execute_tools : {TRUE}, model_calls : {GateCalls}]

\* Schwarm.run has been called and the frontend has let it start (line 99);
\* the exporter breaks on no event or on START_TURN
InitGate ==
    /\ arg \in GateArgs
    /\ loc = [agent |-> arg.agent, messages |-> arg.messages,
              context_variables |-> arg.context_variables, max_turns |-> arg.max_turns]
    /\ ctx = FreshContext
    /\ created = {}
    /\ trace = <<>>
    /\ batch = NoBatch
    /\ calls = 0
    /\ response = NoResponse
    /\ functions = [a \in Agents |-> DeclaredFunctions(a)]
    /\ pc = "setup"
    /\ gate = GateOff
    /\ wait = "none"
    /\ break_on \in {{}, {"START_TURN"}}
    /\ inbox = <<>>
    /\ outbox = <<>>
    /\ OrchIdle
    /\ EventsIdle
    /\ WsIdle
    /\ LibIdle

NextGate ==
    \/ SetupContext
    \/ StartTurn
    \/ Instruct
    \/ MessageCompletion
    \/ Complete
    \/ CompleteRaises
    \/ PostMessageCompletion
    \/ ToolExecution
    \/ HandleTools
    \/ PostToolExecution
    \/ Handoff
    \/ EndTurn
    \/ Return
    \/ PreWait
    \/ Unblock
    \/ SetBreak
    \/ UserInput

SpecGate == InitGate /\ [][NextGate]_vars

(* =================== properties of the pause gate ====================== *)
\* C14: while the pause gate is engaged, that is while the global break flag
\* is set (the frontend sets it at any moment), the turn counter of the run
\* does not advance.
C14_TurnFrozenWhilePaused ==
    [][gate.global_break => ctx'.current_turn = ctx.current_turn]_vars

\* this step dispatches an event to the providers
Dispatched == trace' # trace /\ trace'[Len(trace')].type \in RunEvents

\* every model call comes right after the MESSAGE_COMPLETION event of its turn
ModelCallFollowsEvent ==
    \A i \in 1..Len(trace) :
        trace[i].type = "model.complete" =>
            /\ i > 1
            /\ trace[i - 1].type = "MESSAGE_COMPLETION"
            /\ trace[i - 1].turn = trace[i].turn

\* C15: in every turn the break flag is consulted before the model call (the
\* call follows an event of the turn, and an event is dispatched only when
\* the flag was found clear or the wait for the frontend is over), and after
\* the dispatch of an event in the break-on set the run is in
\* wait_for_frontend, where it takes no step: no event, model call, tool
\* batch or turn increment.
C15_GateConsulted ==
    /\ []ModelCallFollowsEvent
    /\ [][/\ Dispatched => ~gate.global_break
          /\ Dispatched /\ trace'[Len(trace')].type \in break_on =>
                wait' = "post" /\ gate'.global_break
          /\ wait = "post" =>
                /\ pc' = pc /\ trace' = trace /\ calls' = calls /\ batch' = batch
                /\ ctx'.current_turn = ctx.current_turn
                /\ wait' # wait => ~gate.global_break]_vars

\* the run waits after the START_TURN of a later turn, a model call behind it
C15_Witness ==
    /\ wait = "post"
    /\ trace[Len(trace)].type \in break_on
    /\ \E i \in 1..Len(trace) : trace[i].type = "model.complete"

\* the texts of the UserInput messages delivered so far
InputTexts == {inbox[i].text : i \in {j \in 1..Len(inbox) : inbox[j].kind = "UserInput"}}

\* is there a user message with this text in the history?
InHistory(t) ==
    \E i \in 1..Len(ctx.message_history) :
        ctx.message_history[i].role = "user" /\ ctx.message_history[i].content = t

RECURSIVE StepsAsked(_)
StepsAsked(n) ==
    IF n = 0 THEN 0
    ELSE StepsAsked(n - 1) + (IF inbox[n].kind = "SetStep" THEN inbox[n].turns ELSE 0)

\* C17: SetStep is additive: with no turn in between, the turns allowed
\* before the gate engages again are the sum of the delivered amounts (n + m
\* after SetStep{n}, SetStep{m}; n after a single SetStep{n}).
C17_SetStepAdditive ==
    StepsAsked(Len(inbox)) > 0 => StepsAllowed(gate) = StepsAsked(Len(inbox))

(* =================== StreamManager, StreamToolManager ================== *)
\* everything but the stream managers
notStream == <<svars, gvars, ovars, evars, wvars, fvars, cvars, pvars, rvars, bvars, avars>>

\* StreamManager.__new__ called on cls: `cls._instance` is looked up along the
\* classes of cls, so StreamToolManager sees StreamManager's attribute until
\* it has one of its own; the assignment of line 31 writes cls's own attribute
New(cls) ==
    LET found == IF instance[cls] = "unset" THEN instance["StreamManager"] ELSE instance[cls]
    IN  IF found = "none"
        THEN [instance |-> [instance EXCEPT ![cls] = cls], self |-> cls]
        ELSE [instance |-> instance, self |-> found]

\* the message type of the write method of the object's class: StreamManager's
\* default argument (line 51) or StreamToolManager's override (line 104)
WriteType(self) == IF self = "StreamToolManager" THEN "tool" ELSE "default"

\* send_json fails on a websocket whose peer has gone
SendFails(w) == sock[w].state # "open"

\* lines 64-75 from the for statement's next step on, up to the next await or
\* the end of write: the set iterator raises RuntimeError when the set has
\* changed size, else it yields a connection that is sent to, or it is
\* exhausted and the failed connections are removed (KeyError when one of
\* them is no longer in the set)
Iterate(w, active) ==
    LET mine == active[w.self]
        rest == w.pending \cap mine
    IN  IF Cardinality(mine) # w.size
        THEN /\ writer' = [w EXCEPT !.pc = "raised"]
             /\ stream_raised' = stream_raised \cup {"write: RuntimeError"}
             /\ UNCHANGED <<active_connections, delivered>>
        ELSE IF rest # {}
        THEN \E c \in rest :
                /\ writer' = [w EXCEPT !.pc = "send", !.pending = rest \ {c},
                                       !.disconnected = IF SendFails(c) THEN @ \cup {c} ELSE @]
                /\ delivered' = IF SendFails(c) THEN delivered
                                ELSE delivered \cup {[ws |-> c, type |-> w.type,
                                                      content |-> w.chunk, via |-> w.via]}
                /\ UNCHANGED <<active_connections, stream_raised>>
        ELSE IF w.disconnected \subseteq mine
        THEN /\ writer' = [w EXCEPT !.pc = "returned"]
             /\ active_connections' = [active EXCEPT ![w.self] = mine \ w.disconnected]
             /\ UNCHANGED <<delivered, stream_raised>>
        ELSE /\ writer' = [w EXCEPT !.pc = "raised"]
             /\ stream_raised' = stream_raised \cup {"write: KeyError"}
             /\ \E gone \in SUBSET (w.disconnected \cap mine) :
                   active_connections' = [active EXCEPT ![w.self] = mine \ gone]
             /\ UNCHANGED delivered

\* cls().write(chunk), lines 51-63 and on to the first await
StreamWrite ==
    /\ writer.pc \in {"idle", "returned", "raised"}
    /\ writer.count < MaxWrites
    /\ \E cls \in StreamClasses, chunk \in Chunks :
          LET new == New(cls)
              w == [pc |-> "send", via |-> cls, self |-> new.self, type |-> WriteType(new.self),
                    chunk |-> chunk, size |-> Cardinality(active_connections[new.self]),
                    pending |-> active_connections[new.self], disconnected |-> {},
                    at_call |-> active_connections[new.self], count |-> writer.count + 1]
          IN  /\ instance' = new.instance
              /\ IF chunk = ""
                 THEN /\ writer' = [w EXCEPT !.pc = "returned"]
                      /\ UNCHANGED <<active_connections, delivered, stream_raised>>
                 ELSE Iterate(w, active_connections)
    /\ UNCHANGED <<sock, notStream>>

\* the await of line 66 is over
StreamWriteResume ==
    /\ writer.pc = "send"
    /\ Iterate(writer, active_connections)
    /\ UNCHANGED <<instance, sock, notStream>>

\* an endpoint gets its manager with cls() and connects its websocket, lines 40-44
StreamConnect ==
    /\ \E w \in Sockets, cls \in StreamClasses :
          /\ sock[w].state = "new"
          /\ instance' = New(cls).instance
          /\ active_connections' = [active_connections EXCEPT ![New(cls).self] = @ \cup {w}]
          /\ sock' = [sock EXCEPT ![w] = [state |-> "open", cls |-> cls]]
    /\ UNCHANGED <<writer, delivered, stream_raised, notStream>>

\* the peer of a connected websocket goes away
StreamPeerCloses ==
    /\ \E w \in Sockets :
          /\ sock[w].state = "open"
          /\ sock' = [sock EXCEPT ![w].state = "closed"]
    /\ UNCHANGED <<instance, active_connections, writer, delivered, stream_raised, notStream>>

\* the endpoint's receive raised WebSocketDisconnect and it calls
\* manager.disconnect, lines 46-49: set.remove raises KeyError on an absent element
StreamDisconnect ==
    /\ \E w \in Sockets :
          /\ sock[w].state = "closed"
          /\ sock' = [sock EXCEPT ![w].state = "done"]
          /\ LET self == New(sock[w].cls).self
             IN  IF w \in active_connections[self]
                 THEN /\ active_connections' = [active_connections EXCEPT ![self] = @ \ {w}]
                      /\ UNCHANGED stream_raised
                 ELSE /\ stream_raised' = stream_raised \cup {"disconnect: KeyError"}
                      /\ UNCHANGED active_connections
    /\ UNCHANGED <<instance, writer, delivered, notStream>>

\* the process has imported stream_manager.py
InitStream ==
    /\ AgentIdle
    /\ BusIdle
    /\ RegistryIdle
    /\ StreamIdle
    /\ FilterIdle
    /\ ContextIdle
    /\ ProvidersIdle
    /\ SchwarmIdle
    /\ OrchIdle
    /\ EventsIdle
    /\ WsIdle

NextStream ==
    \/ StreamWrite
    \/ StreamWriteResume
    \/ StreamConnect
    \/ StreamPeerCloses
    \/ StreamDisconnect

SpecStream == InitStream /\ [][NextStream]_vars

(* ================= properties of the stream managers =================== *)
\* C21: every chunk written through StreamToolManager().write goes out with
\* type "tool" and every chunk written through StreamManager().write with
\* type "default", whichever of the two classes was constructed first.
C21_ChannelByManager ==
    \A m \in delivered :
        m.type = IF m.via = "StreamToolManager" THEN "tool" ELSE "default"

\* C22: a write with a non-empty chunk that is over has returned, has sent
\* the chunk to every connection that was active at the call and could be
\* sent to, and has removed the connections whose send failed; a write with
\* an empty chunk sends nothing and leaves active_connections alone.
C22_WriteReachesAll ==
    /\ writer.pc # "raised"
    /\ (writer.pc = "returned" /\ writer.chunk # "") =>
          /\ \A c \in writer.at_call :
                \/ [ws |-> c, type |-> writer.type, content |-> writer.chunk, via |-> writer.via]
                       \in delivered
                \/ c \in writer.disconnected
          /\ writer.disconnected \cap active_connections[writer.self] = {}
    /\ \A m \in delivered : m.content # ""

\* C37: removing a connection never fails: disconnect completes without
\* error for every websocket that connected, also after a failed send has
\* dropped it from active_connections, and a websocket whose endpoint has
\* disconnected is in no active set.
C37_DisconnectNeverFails ==
    /\ "disconnect: KeyError" \notin stream_raised
    /\ \A w \in Sockets :
          sock[w].state = "done" => \A c \in StreamClasses : w \notin active_connections[c]

(* =============== Schwarm._filter_context_vars_from_tools =============== *)
notFilter == <<svars, gvars, ovars, evars, wvars, tvars, cvars, pvars, rvars, bvars, avars>>

\* APP_SETTINGS.CONTEXT_VARS_KEY
CONTEXT_VARS_KEY == "context_variables"

\* the parameter names a function may declare
ParamNames == {"a", CONTEXT_VARS_KEY, "b"}

\* the sequences over S without repetition
Injective(S) == {q \in UNION {[1..k -> S] : k \in 0..Cardinality(S)} :
                    \A i, j \in 1..Len(q) : q[i] = q[j] => i = j}

\* function_to_json of one function: a schema for each parameter, and the
\* list of the parameters that have no default
ToolSchemas ==
    UNION {[name : {"f"}, properties : {[k \in D |-> "string"]}, required : Injective(D)] :
              D \in SUBSET ParamNames}

\* dict.pop(key, None)
Pop(properties, key) == [k \in DOMAIN properties \ {key} |-> properties[k]]

Remove_Truncates(list, x) ==
    LET i == CHOOSE n \in 1..Len(list) : list[n] = x /\ \A m \in 1..(n - 1) : list[m] # x
    IN  SubSeq(list, 1, i - 1)

\* list.remove(x) for an x that is in the list: the first occurrence goes
Remove(list, x) ==
    LET i == CHOOSE n \in 1..Len(list) : list[n] = x /\ \A m \in 1..(n - 1) : list[m] # x
    IN  SubSeq(list, 1, i - 1) \o SubSeq(list, i + 1, Len(list))

\* lines 244-248: one iteration of the loop
FilterTool ==
    /\ fcur \in 1..Len(tools)
    /\ LET tool == tools[fcur]
           required == IF \E n \in 1..Len(tool.required) : tool.required[n] = CONTEXT_VARS_KEY
                       THEN Remove(tool.required, CONTEXT_VARS_KEY)
                       ELSE tool.required
       IN  tools' = [tools EXCEPT ![fcur] = [tool EXCEPT !.properties = Pop(@, CONTEXT_VARS_KEY),
                                                         !.required = required]]
    /\ fcur' = fcur + 1
    /\ UNCHANGED <<given, notFilter>>

\* lines 228-237: the loop is over and the tools go to provider.complete
PassTools ==
    /\ fcur = Len(tools) + 1
    /\ fcur' = 0
    /\ UNCHANGED <<tools, given, notFilter>>

\* line 226 has built the schemas of the agent's functions
InitFilter ==
    /\ AgentIdle
    /\ BusIdle
    /\ RegistryIdle
    /\ given \in UNION {[1..n -> ToolSchemas] : n \in 0..MaxTools}
    /\ tools = given
    /\ fcur = 1
    /\ StreamIdle
    /\ ContextIdle
    /\ ProvidersIdle
    /\ SchwarmIdle
    /\ OrchIdle
    /\ EventsIdle
    /\ WsIdle

NextFilter ==
    \/ FilterTool
    \/ PassTools

SpecFilter == InitFilter /\ [][NextFilter]_vars

\* C27: the tools passed to the model are the schemas as built, tool by
\* tool, without the reserved parameter in properties and in required; every
\* other property keeps its schema and every other required entry its place.
C27_ReservedParameterStripped ==
    fcur = 0 /\ given # <<>> =>
        /\ Len(tools) = Len(given)
        /\ \A i \in 1..Len(tools) :
              /\ tools[i].name = given[i].name
              /\ DOMAIN tools[i].properties = DOMAIN given[i].properties \ {CONTEXT_VARS_KEY}
              /\ \A k \in DOMAIN tools[i].properties :
                    tools[i].properties[k] = given[i].properties[k]
              /\ tools[i].required =
                    SelectSeq(given[i].required, LAMBDA x : x # CONTEXT_VARS_KEY)

\* a tool that required the reserved parameter between two others went out
C27_Witness ==
    /\ fcur = 0
    /\ \E i \in 1..Len(given) :
          /\ given[i].required = <<"a", CONTEXT_VARS_KEY, "b">>
          /\ tools[i].required = <<"a", "b">>

(* =============================== Context =============================== *)
notContext == <<svars, gvars, ovars, evars, wvars, tvars, fvars, pvars, rvars, bvars, avars>>

\* the keys a dictionary can hold: the caller of get_all may add one more
DictKeys == ContextKeys \cup {"new_key"}

\* line 32: dict.get(key, default)
Get(key, default) == IF variables[key] # Absent THEN variables[key] ELSE default

\* line 65: key in self._variables
Contains(key) == variables[key] # Absent

GetAll_SameDict == [held |-> TRUE, alias |-> TRUE, dict |-> variables]

\* line 75: self._variables.copy(), a new dictionary with the same entries
GetAll == [held |-> TRUE, alias |-> FALSE, dict |-> variables]

\* line 41; a dictionary the caller holds is the same object only if get_all
\* handed out the object itself
ContextSet ==
    /\ \E k \in ContextKeys, v \in ContextValues :
          /\ variables' = [variables EXCEPT ![k] = v]
          /\ last_set' = [last_set EXCEPT ![k] = v]
    /\ returned' = IF returned.alias THEN [returned EXCEPT !.dict = variables'] ELSE returned
    /\ UNCHANGED notContext

\* line 51: pop(key, None)
ContextRemove ==
    /\ \E k \in ContextKeys :
          /\ variables' = [variables EXCEPT ![k] = Absent]
          /\ last_set' = [last_set EXCEPT ![k] = Absent]
    /\ returned' = IF returned.alias THEN [returned EXCEPT !.dict = variables'] ELSE returned
    /\ UNCHANGED notContext

\* line 55
ContextClear ==
    /\ variables' = [k \in DictKeys |-> Absent]
    /\ last_set' = [k \in ContextKeys |-> Absent]
    /\ returned' = IF returned.alias THEN [returned EXCEPT !.dict = variables'] ELSE returned
    /\ UNCHANGED notContext

\* a caller calls get_all and keeps the result
ContextGetAll ==
    /\ returned' = GetAll
    /\ UNCHANGED <<variables, last_set, notContext>>

\* the caller sets or deletes an entry of the dictionary it holds
\* (tests/test_context.py line 76)
MutateReturned ==
    /\ returned.held
    /\ \E k \in DictKeys, v \in ContextValues \cup {Absent} :
          /\ returned' = [returned EXCEPT !.dict[k] = v]
          /\ variables' = IF returned.alias THEN returned'.dict ELSE variables
    /\ UNCHANGED <<last_set, notContext>>

InitContext ==
    /\ AgentIdle
    /\ BusIdle
    /\ RegistryIdle
    /\ ContextIdle
    /\ StreamIdle
    /\ FilterIdle
    /\ ProvidersIdle
    /\ SchwarmIdle
    /\ OrchIdle
    /\ EventsIdle
    /\ WsIdle

NextContext ==
    \/ ContextSet
    \/ ContextRemove
    \/ ContextClear
    \/ ContextGetAll
    \/ MutateReturned

SpecContext == InitContext /\ [][NextContext]_vars

\* C29: whatever a caller does to a dictionary it got from get_all, get(k, d)
\* returns the value of the last set(k, .) that no remove(k) or clear has
\* followed and d otherwise, contains(k) tells whether there is one, and
\* get_all returns exactly these entries.
C29_GetAllIsACopy ==
    /\ \A k \in ContextKeys, d \in ContextValues \cup {None} :
          /\ Get(k, d) = IF last_set[k] # Absent THEN last_set[k] ELSE d
          /\ Contains(k) = (last_set[k] # Absent)
    /\ \A k \in DictKeys :
          GetAll.dict[k] = IF k \in ContextKeys THEN last_set[k] ELSE Absent

\* the caller's dictionary has a key of its own and lost or changed one of
\* the context's
C29_Witness ==
    /\ returned.dict["new_key"] # Absent
    /\ \E k \in ContextKeys : last_set[k] # Absent /\ returned.dict[k] # last_set[k]

(* ============ create_provider_configs and create_provider ============== *)
notProviders == <<svars, gvars, ovars, evars, wvars, tvars, fvars, cvars, rvars, bvars, avars>>

\* the provider configurations the agents are tried with
Scopes == {"global", "scoped", "jit"}
Configs == [kind : {"budget", "memory"}, scope : Scopes]

\* the key an instance of the configuration is kept under for the agent
ScopeKey(agent_name, config) == IF config.scope = "global" THEN "global" ELSE agent_name

\* the instance of the configuration stored under the key, if there is one
Stored(st, key, config) == {i \in st.providers[key] : i.config = config}

CreateProvider_AlwaysNew(st, agent_name, config) ==
    LET key == ScopeKey(agent_name, config)
        inst == [id |-> st.made + 1, config |-> config]
    IN  [st EXCEPT !.made = @ + 1,
                   !.providers[key] = IF config.scope = "jit" THEN @ ELSE @ \cup {inst},
                   !.issued = Append(@, [agent |-> agent_name, config |-> config, id |-> inst.id])]

\* ProviderManager.create_provider: a jit configuration gets a new instance
\* that is not kept; a global or scoped one gets the instance stored under
\* its key, which is constructed and stored if it is missing
CreateProvider(st, agent_name, config) ==
    LET key == ScopeKey(agent_name, config)
        inst == [id |-> st.made + 1, config |-> config]
    IN  IF config.scope = "jit"
        THEN [st EXCEPT !.made = @ + 1,
                        !.issued = Append(@, [agent |-> agent_name, config |-> config, id |-> inst.id])]
        ELSE IF Stored(st, key, config) # {}
        THEN LET old == CHOOSE i \in Stored(st, key, config) : TRUE
             IN  [st EXCEPT !.issued = Append(@, [agent |-> agent_name, config |-> config, id |-> old.id])]
        ELSE [st EXCEPT !.made = @ + 1,
                        !.providers[key] = @ \cup {inst},
                        !.issued = Append(@, [agent |-> agent_name, config |-> config, id |-> inst.id])]

\* lines 130-133: the loop over agent.configs
RECURSIVE Materialise(_, _, _)
Materialise(st, agent_name, configs) ==
    IF configs = <<>> THEN st
    ELSE LET created_ == CreateProvider(st, agent_name, Head(configs))
         IN  Materialise([created_ EXCEPT !.names = Append(@, Head(configs).kind)],
                         agent_name, Tail(configs))

\* Schwarm.create_provider_configs(agent), called by _setup_context in the
\* first turn of every run and for every agent that joins a run
CreateProviderConfigs ==
    /\ Len(issued) + MaxConfigs <= MaxMaterialise * MaxConfigs
    /\ \E a \in Agents :
          LET st == Materialise([providers |-> providers, issued |-> issued, made |-> made,
                                 names |-> provider_names[a]], a, agent_configs[a])
          IN  /\ providers' = st.providers
              /\ issued' = st.issued
              /\ made' = st.made
              /\ provider_names' = [provider_names EXCEPT ![a] = st.names]
    /\ UNCHANGED <<agent_configs, notProviders>>

InitProviders ==
    /\ AgentIdle
    /\ BusIdle
    /\ RegistryIdle
    /\ providers = [k \in ScopeKeys |-> {}]
    /\ agent_configs \in [Agents -> UNION {[1..n -> Configs] : n \in 0..MaxConfigs}]
    /\ provider_names = [a \in Agents |-> <<>>]
    /\ issued = <<>>
    /\ made = 0
    /\ StreamIdle
    /\ FilterIdle
    /\ ContextIdle
    /\ SchwarmIdle
    /\ OrchIdle
    /\ EventsIdle
    /\ WsIdle

NextProviders ==
    \/ CreateProviderConfigs

SpecProviders == InitProviders /\ [][NextProviders]_vars

notRegistry == <<svars, gvars, ovars, evars, wvars, tvars, fvars, cvars, pvars, bvars, avars>>

\* what the tool can return: a value, or None
ToolResults == {"r1", None}

\* lines 211-219: the entry's result, or None when there is no entry or it is
\* older than the ttl
GetCached(key, ttl) ==
    IF ~cache[key].present THEN None
    ELSE IF now - cache[key].time > ttl THEN None
    ELSE cache[key].result

\* line 216: an entry found too old is deleted
AfterGetCached(key, ttl) ==
    IF cache[key].present /\ now - cache[key].time > ttl THEN [cache EXCEPT ![key] = NoEntry] ELSE cache

RetryAgain_OnceMore(retries) == retries >= -1

\* lines 166 and 177: is there an attempt left?
RetryAgain(retries) == retries >= 0

\* execute(name, args) for a registered tool with all its required
\* parameters, lines 105-126: the cache is asked when a ttl is configured
Execute ==
    /\ reg.pc = "idle"
    /\ rlog.count < MaxExecutes
    /\ \E args \in ArgLists :
          LET key == MakeCacheKey("tool", args)
              cached == IF reg.ttl # 0 THEN GetCached(key, reg.ttl) ELSE None
          IN  /\ cache' = IF reg.ttl # 0 THEN AfterGetCached(key, reg.ttl) ELSE cache
              /\ IF cached # None
                 THEN /\ rlog' = [rlog EXCEPT !.count = @ + 1,
                                              !.last = [key |-> key, start |-> now, outcome |-> "hit",
                                                        result |-> cached, error |-> 0, tries |-> <<>>,
                                                        before |-> rlog.ran[key]]]
                      /\ UNCHANGED reg
                 ELSE /\ reg' = [reg EXCEPT !.pc = "attempt", !.key = key, !.start = now,
                                            !.retries = reg.retry_count, !.tries = <<>>,
                                            !.last_error = 0, !.before = rlog.ran[key]]
                      /\ UNCHANGED rlog
    /\ UNCHANGED <<now, notRegistry>>

\* lines 166-181 and 134-142: one pass of the retry loop. The tool returns,
\* the result is cached when a ttl is configured and execute returns it; or
\* the tool raises, and the loop sleeps before the next attempt or raises
\* the last error
Attempt ==
    /\ reg.pc = "attempt"
    /\ RetryAgain(reg.retries)
    /\ \E outcome \in ToolResults \cup {"raise"} :
          LET tries == Append(reg.tries, outcome)
              done(o, r, e) == [key |-> reg.key, start |-> reg.start, outcome |-> o, result |-> r,
                                error |-> e, tries |-> tries, before |-> reg.before]
          IN  IF outcome # "raise"
              THEN /\ cache' = IF reg.ttl # 0
                               THEN [cache EXCEPT ![reg.key] = [present |-> TRUE, result |-> outcome, time |-> now]]
                               ELSE cache
                   /\ rlog' = [rlog EXCEPT !.count = @ + 1, !.last = done("ran", outcome, 0),
                                           !.ran[reg.key] = [present |-> TRUE, result |-> outcome, time |-> now]]
                   /\ reg' = [reg EXCEPT !.pc = "idle", !.tries = tries]
              ELSE /\ UNCHANGED cache
                   /\ IF RetryAgain(reg.retries - 1)
                      THEN /\ reg' = [reg EXCEPT !.retries = @ - 1, !.tries = tries, !.last_error = Len(tries)]
                           /\ UNCHANGED rlog
                      ELSE /\ reg' = [reg EXCEPT !.pc = "idle", !.retries = @ - 1, !.tries = tries,
                                                 !.last_error = Len(tries)]
                           /\ rlog' = [rlog EXCEPT !.count = @ + 1, !.last = done("raised", None, Len(tries))]
    /\ UNCHANGED <<now, notRegistry>>

\* a second passes
Tick ==
    /\ now < MaxTime
    /\ now' = now + 1
    /\ UNCHANGED <<reg, cache, rlog, notRegistry>>

\* a tool has been registered with its ToolConfig
InitRegistry ==
    /\ AgentIdle
    /\ BusIdle
    /\ reg \in {[NoCall EXCEPT !.ttl = t, !.retry_count = c] : t \in 0..1, c \in 0..MaxRetry}
    /\ cache = [k \in CacheKeys |-> NoEntry]
    /\ now = 0
    /\ rlog = NoLog
    /\ StreamIdle
    /\ FilterIdle
    /\ ContextIdle
    /\ ProvidersIdle
    /\ SchwarmIdle
    /\ OrchIdle
    /\ EventsIdle
    /\ WsIdle

NextRegistry ==
    \/ Execute
    \/ Attempt
    \/ Tick

SpecRegistry == InitRegistry /\ [][NextRegistry]_vars

(* ================= properties of the ToolRegistry ====================== *)
\* C33: the retry loop terminates after at most retry_count + 1 calls of the
\* tool: a call in the loop always has an attempt left; the first attempt
\* that succeeds is the last, and its result is returned; when all
\* retry_count + 1 attempts fail, the error of the last one is raised.
C33_RetryBounded ==
    /\ reg.pc = "attempt" =>
          /\ Len(reg.tries) <= reg.retry_count
          /\ ENABLED Attempt
    /\ rlog.last.outcome \in {"ran", "raised"} =>
          LET t == rlog.last.tries
          IN  /\ Len(t) >= 1 /\ Len(t) <= reg.retry_count + 1
              /\ \A i \in 1..(Len(t) - 1) : t[i] = "raise"
              /\ rlog.last.outcome = "ran" =>
                    t[Len(t)] # "raise" /\ rlog.last.result = t[Len(t)]
              /\ rlog.last.outcome = "raised" =>
                    /\ t[Len(t)] = "raise"
                    /\ Len(t) = reg.retry_count + 1
                    /\ rlog.last.error = Len(t)

\* a success after a failure, and a call that used up all its attempts
C33_Witness ==
    /\ reg.retry_count >= 1
    /\ \/ rlog.last.outcome = "ran" /\ Len(rlog.last.tries) >= 2
       \/ rlog.last.outcome = "raised" /\ Len(rlog.last.tries) = reg.retry_count + 1

\* C34: with a ttl configured, a call for a tool and argument set whose last
\* result was computed no more than ttl seconds before returns that result
\* without calling the tool, whatever the result is (None included) and in
\* whatever order the arguments are given; a result older than the ttl is
\* not returned from the cache.
C34_CachedWithinTtl ==
    (reg.ttl # 0 /\ rlog.last.outcome # "none" /\ rlog.last.before.present) =>
        IF rlog.last.start - rlog.last.before.time <= reg.ttl
        THEN /\ rlog.last.outcome = "hit"
             /\ rlog.last.result = rlog.last.before.result
        ELSE rlog.last.outcome # "hit"

(* ============= ContextManager on the enhanced EventDispatcher ========== *)
notBus == <<svars, gvars, ovars, evars, wvars, tvars, fvars, cvars, pvars, rvars, avars>>

MaxHandlers == 2

\* what a CONTEXT_VARIABLE_SET listener does with an event: return, raise,
\* await something of its own and then return, or, when the event is about
\* another key, set the derived variable on the same ContextManager
ListenerKinds == {"returns", "raises", "suspends", "sets"}
HandlerLists == UNION {[1..n -> ListenerKinds] : n \in 0..MaxHandlers}

\* set, lines 62-64
AfterSet(c, k, v) == [c EXCEPT !.pending_key = k, !.pending_value = v]

\* execute_set, lines 91-104: the pending value goes under the pending key
Store(c) == [c EXCEPT !.variables[c.pending_key] = c.pending_value]

\* execute_set, lines 116-119
Finally(c) == [c EXCEPT !.pending_key = Nil, !.pending_value = Nil]

\* asyncio.Lock.release: the lock goes to the frame that has waited longest
Release(lk) ==
    IF lk.waiters = <<>> THEN FreeLock
    ELSE [owner |-> Head(lk.waiters), waiters |-> Tail(lk.waiters)]

RECURSIVE Continue(_, _, _, _, _)
RECURSIVE EnterDispatch(_, _, _, _)

\* execute_set is over at the depth of tk: the coroutine is done, or the
\* listener that called it goes on and returns
ExecuteSetReturns(t, c, lk, tk) ==
    IF tk.depth = 0
    THEN [cm |-> Finally(c), lock |-> lk, co |-> [tk EXCEPT !.pc = "done", !.outcome = "ok"]]
    ELSE Continue(t, Finally(c), lk, [tk EXCEPT !.depth = 0], tk.outer + 1)

\* _notify_listeners, lines 218-223, from listener i on, by the frame that
\* holds the lock, up to the next suspension of the coroutine
Continue(t, c, lk, tk, i) ==
    IF i > Len(handlers) THEN ExecuteSetReturns(t, c, Release(lk), tk)
    ELSE IF handlers[i] = "suspends"
    THEN [cm |-> c, lock |-> lk, co |-> [tk EXCEPT !.pc = "in_listener", !.li = i]]
    ELSE IF handlers[i] = "sets" /\ tk.depth = 0
    THEN EnterDispatch(t, Store(AfterSet(c, DerivedKey, DerivedValue)), lk,
                       [tk EXCEPT !.depth = 1, !.outer = i])
    ELSE Continue(t, c, lk, tk, i + 1)

\* _dispatch_event and dispatch, lines 203-208 and 180-190 (no middleware
\* is registered), then _notify_listeners lines 216-217: without listeners
\* nothing is awaited; with listeners the lock is taken, or waited for
EnterDispatch(t, c, lk, tk) ==
    IF handlers = <<>> THEN ExecuteSetReturns(t, c, lk, tk)
    ELSE IF lk.owner = NoFrame /\ lk.waiters = <<>>
    THEN Continue(t, c, [lk EXCEPT !.owner = <<t, tk.depth>>], tk, 1)
    ELSE [cm |-> c, lock |-> [lk EXCEPT !.waiters = Append(@, <<t, tk.depth>>)],
          co |-> [tk EXCEPT !.pc = "lock_wait"]]

\* execute_set, lines 85-119, on the manager state c, up to the first
\* suspension of the coroutine
ExecuteSetFrom(t, c, tk) ==
    IF c.pending_key = Nil
    THEN /\ cm' = c
         /\ co' = [co EXCEPT ![t] = [tk EXCEPT !.pc = "done", !.outcome = "ValueError"]]
         /\ UNCHANGED lock
    ELSE LET r == EnterDispatch(t, Store(c), lock,
                                [tk EXCEPT !.stored = <<c.pending_key, c.pending_value>>])
         IN  /\ cm' = r.cm
             /\ lock' = r.lock
             /\ co' = [co EXCEPT ![t] = r.co]

\* coroutine t calls set(k, v) and goes on with its own code
CmSet(t) ==
    /\ co[t].pc = "start"
    /\ \E k \in CmKeys, v \in CmValues :
          /\ cm' = AfterSet(cm, k, v)
          /\ co' = [co EXCEPT ![t] = [@ EXCEPT !.pc = "set", !.key = k, !.value = v]]
    /\ UNCHANGED <<lock, handlers, notBus>>

\* coroutine t, after its set and an await of its own, awaits execute_set()
CmExecuteSet(t) ==
    /\ co[t].pc = "set"
    /\ ExecuteSetFrom(t, cm, co[t])
    /\ UNCHANGED <<handlers, notBus>>

\* coroutine t awaits set(k, v).execute_set() in one expression
CmSetAndExecute(t) ==
    /\ co[t].pc = "start"
    /\ \E k \in CmKeys, v \in CmValues :
          ExecuteSetFrom(t, AfterSet(cm, k, v), [co[t] EXCEPT !.key = k, !.value = v])
    /\ UNCHANGED <<handlers, notBus>>

\* the await inside a listener is over: the listener returns to line 221
ListenerResumes(t) ==
    /\ co[t].pc = "in_listener"
    /\ LET r == Continue(t, cm, lock, co[t], co[t].li + 1)
       IN  /\ cm' = r.cm
           /\ lock' = r.lock
           /\ co' = [co EXCEPT ![t] = r.co]
    /\ UNCHANGED <<handlers, notBus>>

\* the lock was released to the waiting frame of t: `async with` is entered
LockGranted(t) ==
    /\ co[t].pc = "lock_wait"
    /\ lock.owner = <<t, co[t].depth>>
    /\ LET r == Continue(t, cm, lock, co[t], 1)
       IN  /\ cm' = r.cm
           /\ lock' = r.lock
           /\ co' = [co EXCEPT ![t] = r.co]
    /\ UNCHANGED <<handlers, notBus>>

\* a ContextManager whose dispatcher has its listeners registered
InitBus ==
    /\ AgentIdle
    /\ cm = [variables |-> [k \in AllCmKeys |-> Nil], pending_key |-> Nil, pending_value |-> Nil]
    /\ lock = FreeLock
    /\ handlers \in HandlerLists
    /\ co = [c \in Coroutines |-> NoCo]
    /\ RegistryIdle
    /\ StreamIdle
    /\ FilterIdle
    /\ ContextIdle
    /\ ProvidersIdle
    /\ SchwarmIdle
    /\ OrchIdle
    /\ EventsIdle
    /\ WsIdle

NextBus ==
    \E t \in Coroutines :
        \/ CmSet(t)
        \/ CmExecuteSet(t)
        \/ CmSetAndExecute(t)
        \/ ListenerResumes(t)
        \/ LockGranted(t)

SpecBus == InitBus /\ [][NextBus]_vars

(* ========== properties of the ContextManager and its dispatcher ========= *)
\* C35: a coroutine's execute_set after its own set(k, v) raises no error
\* and stores v under k, whatever the other coroutines' set and execute_set
\* calls did in between.
C35_PendingSetIsOwn ==
    \A t \in Coroutines :
        co[t].pc \notin {"start", "set"} =>
            /\ co[t].outcome # "ValueError"
            /\ co[t].stored = <<co[t].key, co[t].value>>

\* C36: a coroutine inside a dispatch can go on: the listener it awaits
\* returns, or the lock it waits for is held by another coroutine's dispatch
\* (which can go on in turn); it never waits for a lock its own dispatch holds.
C36_DispatchCompletes ==
    \A t \in Coroutines :
        co[t].pc \in {"in_listener", "lock_wait"} =>
            \/ ENABLED (ListenerResumes(t) \/ LockGranted(t))
            \/ co[t].pc = "lock_wait" /\ lock.owner[1] \notin {t, "none"}

(* ======================== Agent.execute_function ======================= *)
notAgent == <<svars, gvars, ovars, evars, wvars, tvars, fvars, cvars, pvars, rvars, bvars>>

MaxFunctionListeners == 1

\* the names execute_function is called with: one is in _functions
FunctionNames == {"known", "unknown"}
FunctionResults == {"r1", "r2"}
ListenerLists == UNION {[1..n -> Behaviours] : n \in 0..MaxFunctionListeners}

\* _dispatch_event, lines 226-232, on the schwarma_core dispatcher: the
\* first listener that raises ends the dispatch with its error
DispatchRaises(t) ==
    \E i \in 1..Len(flisteners[t]) : CoreAfterListener(flisteners[t][i]) = "raised"

\* lines 127-130: execute_function is called; an unknown name is a KeyError
ExecuteFunction ==
    /\ fx.pc = "idle"
    /\ \E n \in FunctionNames :
          fx' = IF n = "known"
                THEN [fx EXCEPT !.pc = "before", !.name = n]
                ELSE [fx EXCEPT !.pc = "done", !.name = n, !.outcome = "raised", !.value = "KeyError"]
    /\ UNCHANGED <<fevents, flisteners, notAgent>>

\* lines 132-140: the event before the execution, outside the try block
DispatchBefore ==
    /\ fx.pc = "before"
    /\ fevents' = Append(fevents, "BEFORE_FUNCTION_EXECUTION")
    /\ fx' = IF DispatchRaises("BEFORE_FUNCTION_EXECUTION")
             THEN [fx EXCEPT !.pc = "done", !.outcome = "raised", !.value = "listener error"]
             ELSE [fx EXCEPT !.pc = "run"]
    /\ UNCHANGED <<flisteners, notAgent>>

\* line 143: the function is awaited; it returns a result or raises
RunFunction ==
    /\ fx.pc = "run"
    /\ \/ \E r \in FunctionResults : fx' = [fx EXCEPT !.pc = "after", !.did = "returned", !.result = r]
       \/ fx' = [fx EXCEPT !.pc = "error", !.did = "raised", !.error = "function error"]
    /\ UNCHANGED <<fevents, flisteners, notAgent>>

\* lines 145-155: the event after the execution, inside the try block, and
\* the return of the result
DispatchAfter ==
    /\ fx.pc = "after"
    /\ fevents' = Append(fevents, "AFTER_FUNCTION_EXECUTION")
    /\ fx' = IF DispatchRaises("AFTER_FUNCTION_EXECUTION")
             THEN [fx EXCEPT !.pc = "error", !.error = "listener error"]
             ELSE [fx EXCEPT !.pc = "done", !.outcome = "returned", !.value = fx.result]
    /\ UNCHANGED <<flisteners, notAgent>>

\* lines 157-166: except Exception: the error event, then raise
DispatchError ==
    /\ fx.pc = "error"
    /\ fevents' = Append(fevents, "FUNCTION_ERROR")
    /\ fx' = [fx EXCEPT !.pc = "done", !.outcome = "raised",
                        !.value = IF DispatchRaises("FUNCTION_ERROR") THEN "listener error" ELSE fx.error]
    /\ UNCHANGED <<flisteners, notAgent>>

\* an agent with its functions, and listeners on its dispatcher
InitAgent ==
    /\ fx = NoFx
    /\ fevents = <<>>
    /\ flisteners \in [FunctionEvents -> ListenerLists]
    /\ BusIdle
    /\ RegistryIdle
    /\ StreamIdle
    /\ FilterIdle
    /\ ContextIdle
    /\ ProvidersIdle
    /\ SchwarmIdle
    /\ OrchIdle
    /\ EventsIdle
    /\ WsIdle

NextAgent ==
    \/ ExecuteFunction
    \/ DispatchBefore
    \/ RunFunction
    \/ DispatchAfter
    \/ DispatchError

SpecAgent == InitAgent /\ [][NextAgent]_vars

(* ================ properties of Agent.execute_function ================= *)
\* C39: a finished execute_function of a known function has dispatched
\* BEFORE_FUNCTION_EXECUTION once, first, and then exactly one of
\* AFTER_FUNCTION_EXECUTION (the function returned, and its result is
\* returned) and FUNCTION_ERROR (the function raised, and its error is
\* raised again); for an unknown name KeyError is raised and no event is
\* dispatched.
C39_FunctionEventProtocol ==
    fx.pc = "done" =>
        IF fx.name = "known"
        THEN \/ /\ fevents = <<"BEFORE_FUNCTION_EXECUTION", "AFTER_FUNCTION_EXECUTION">>
                /\ fx.did = "returned"
                /\ fx.outcome = "returned" /\ fx.value = fx.result
             \/ /\ fevents = <<"BEFORE_FUNCTION_EXECUTION", "FUNCTION_ERROR">>
                /\ fx.did = "raised"
                /\ fx.outcome = "raised" /\ fx.value = fx.error
        ELSE fevents = <<>> /\ fx.outcome = "raised" /\ fx.value = "KeyError"

====
